---- MODULE Spec2Model ----
(***************************************************************************)
(* State-machine model of the MTGJSON SDK's data materialization layer:    *)
(*   - CacheManager (src/src/cache.rs): version check, staleness,          *)
(*     temp-file-then-rename download, JSON loading with corruption        *)
(*     recovery;                                                           *)
(*   - Connection (src/src/connection.rs): the registry of views;          *)
(*   - MtgjsonSdk::refresh (src/src/lib.rs);                               *)
(*   - BoosterSimulator (src/src/booster/simulator.rs): open_pack and the  *)
(*     weighted sampling of cards from a sheet;                            *)
(*   - convert_value_ref (src/src/connection.rs): engine values to JSON;   *)
(*   - SqlBuilder (src/src/sql_builder.rs).                                *)
(*                                                                         *)
(* The cache directory is shared state (a map from paths to contents);     *)
(* every SDK session (process) has its own CacheManager and Connection.    *)
(* The CDN, the disk and the query engine are the environment: each        *)
(* request, write, rename and engine call draws its outcome from the set   *)
(* of outcomes the call can have.                                          *)
(***************************************************************************)
EXTENDS Integers, Sequences, FiniteSets, TLC

\* ------------------------------------------------------------------ bounds

\* How many times the CDN publishes a new version during a run.
MaxPublish == 1

\* How many requests one session sends to the metadata endpoint in a run.
MaxMetaRequests == 2

\* ------------------------------------------------------------- value model

\* The sessions (processes) that may share one cache directory.
Procs == {1, 2}

\* Version tokens the CDN may serve, as sequences of characters.  One of them
\* carries trailing whitespace, which local_version() trims.
Tokens == {<<"a">>, <<"b">>, <<"b", " ">>}

\* Option<String>
None == [some |-> FALSE, v |-> <<>>]
Some(s) == [some |-> TRUE, v |-> s]

\* Contents of a data file of the cache directory.
\*   absent        : no file at the path
\*   data          : the complete file the CDN served while its version was ver
\*   partial       : a file some writer has created or truncated and not yet
\*                   written completely
\*   garbage_text  : bytes that are valid UTF-8 but not JSON
\*   garbage_bytes : bytes that are not valid UTF-8
Absent == [kind |-> "absent", ver |-> <<>>]
Partial == [kind |-> "partial", ver |-> <<>>]
GarbageText == [kind |-> "garbage_text", ver |-> <<>>]
GarbageBytes == [kind |-> "garbage_bytes", ver |-> <<>>]
Data(v) == [kind |-> "data", ver |-> v]

\* version.txt: absent, or a text file.
NoVersionFile == [exists |-> FALSE, text |-> <<>>]
VersionFile(s) == [exists |-> TRUE, text |-> s]

\* ------------------------------------------------------------------ config

\* Logical view name -> relative path, as <<stem, extension>>.
parquet_files ==
  [cards |-> <<"parquet/cards", "parquet">>,
   card_legalities |-> <<"parquet/cardLegalities", "parquet">>]

\* Logical JSON file name -> relative path, as <<stem, extension>>.
json_files == [meta |-> <<"Meta", "json">>]

\* Path::extension
extension(path) == path[Len(path)]

\* dest.with_extension(format!("{}.tmp", ext)): the `.tmp` sibling of dest.
tmp_dest(dest) == dest \o <<"tmp">>

DataPaths ==
  {parquet_files[n] : n \in DOMAIN parquet_files}
    \cup {json_files[n] : n \in DOMAIN json_files}

AllPaths == DataPaths \cup {tmp_dest(d) : d \in DataPaths}

\* ------------------------------------------------------------------- state

VARIABLES
  cdn,              \* the version token the CDN currently serves
  published,        \* number of version changes of the CDN so far
  store,            \* cache directory: path -> contents
  version_txt,      \* cache directory: version.txt
  observed,         \* what an outside reader of a final path last saw
  offline,          \* CacheManager.offline, per session
  remote_ver,       \* CacheManager.remote_ver, per session
  registered_views, \* Connection.registered_views, per session
  meta_requests,    \* requests the session has sent to META_URL
  pc,               \* position of the session's call in progress
  op,               \* the public call in progress: [fn, name]
  dest,             \* download_file: the final path being downloaded
  buf,              \* download_file: the response body received
  err,              \* download_file: the error of the closure, if any
  fd,               \* download_file: the file fs::write has open
  ret,              \* the result of the session's last call
  ev,               \* the last step: who took it and what it did outside memory
  db,               \* the booster tables and the cards view the engine serves
  pack,             \* BoosterSimulator::open_pack: the call in progress
  pick,             \* pick_from_sheet: the call in progress
  box,              \* BoosterSimulator::open_box: the call in progress
  view,             \* build_csv_replace / register_legalities_view: the call and its result
  value_ref,        \* convert_value_ref: the engine value handed in
  converted,        \* convert_value_ref: the JSON value returned
  sb,               \* the SqlBuilder under construction
  built             \* what SqlBuilder::build last returned

shared == <<cdn, published, store, version_txt, observed>>
session == <<offline, remote_ver, registered_views, meta_requests>>
control == <<pc, op, dest, buf, err, fd, ret, ev>>
cache_layer == <<shared, session, control>>
simulator == <<db, pack, pick, box>>
converter == <<value_ref, converted>>
builder == <<sb, built>>
introspection == <<view>>
vars == <<cache_layer, simulator, converter, builder, introspection>>

\* What the cache layer and the registry of views leave alone.
outside_cache == <<simulator, converter, builder, introspection>>

NoOp == [fn |-> "none", name |-> "none"]
NoRet == [fn |-> "none", name |-> "none", res |-> "none", ver |-> None, stale |-> FALSE]
NoFd == [at |-> <<>>, clean |-> TRUE]

\* ev: the session that took the last step (0: the environment), the endpoints it
\* contacted, whether remote_version() answered from its memory, what
\* save_version did, and whether ensure_views skipped a registered name.
Quiet(by) == [by |-> by, sent |-> {}, hit |-> FALSE, save |-> "none", skip |-> FALSE]

\* The cache directory is empty, no session has done anything yet.
CacheInit ==
  /\ cdn = <<"a">>
  /\ published = 0
  /\ store = [p \in AllPaths |-> Absent]
  /\ version_txt = NoVersionFile
  /\ observed = Absent
  /\ offline \in [Procs -> BOOLEAN]
  /\ remote_ver = [p \in Procs |-> None]
  /\ registered_views = [p \in Procs |-> {}]
  /\ meta_requests = [p \in Procs |-> 0]
  /\ pc = [p \in Procs |-> "idle"]
  /\ op = [p \in Procs |-> NoOp]
  /\ dest = [p \in Procs |-> <<>>]
  /\ buf = [p \in Procs |-> Absent]
  /\ err = [p \in Procs |-> "none"]
  /\ fd = [p \in Procs |-> NoFd]
  /\ ret = [p \in Procs |-> NoRet]
  /\ ev = Quiet(0)

\* No booster table is loaded and no open_pack or pick_from_sheet call runs.
NoTables ==
  [content_weights |-> {}, contents |-> {}, sheets |-> {}, sheet_cards |-> {},
   cards |-> {}]

NoPack == [pc |-> "idle"]

NoPick == [pc |-> "idle"]

NoBox == [pc |-> "idle"]

SimulatorAtRest == db = NoTables /\ pack = NoPack /\ pick = NoPick /\ box = NoBox

NoView == [fn |-> "none"]

IntrospectionAtRest == view = NoView

NoValue == [tag |-> "none"]

ConverterAtRest == value_ref = NoValue /\ converted = NoValue

NoBuilder == [made |-> FALSE]

BuilderAtRest == sb = NoBuilder /\ built = NoBuilder

Init ==
  CacheInit /\ SimulatorAtRest /\ ConverterAtRest /\ BuilderAtRest /\ IntrospectionAtRest

\* ------------------------------------------------------------- environment

\* What the metadata endpoint can answer.  A body that parses as JSON holds
\* the version under data.version, under meta.version, under both or under
\* neither.
NoBody == [data |-> None, meta |-> None]

MetaBodies == {[data |-> d, meta |-> m] : d \in {None, Some(cdn)}, m \in {None, Some(cdn)}}

MetaReplies ==
  {[status |-> s, body |-> NoBody] : s \in {"conn_err", "http_err", "not_json"}}
    \cup {[status |-> "ok", body |-> b] : b \in MetaBodies}

\* What a file request to the CDN can end in.
FileReplies == {"conn_err", "http_err", "body_err", "ok"}

\* fs::write(path, bytes): File::create fails and leaves the path alone, or
\* write_all fails after the file was created or truncated, or all is written.
WriteOutcomes == {"create_err", "write_err", "ok"}

\* ---------------------------------------------------------- pure functions

RECURSIVE TrimStart(_)
TrimStart(s) ==
  IF s # <<>> /\ Head(s) = " " THEN TrimStart(Tail(s)) ELSE s

RECURSIVE TrimEnd(_)
TrimEnd(s) ==
  IF s # <<>> /\ s[Len(s)] = " " THEN TrimEnd(SubSeq(s, 1, Len(s) - 1)) ELSE s

\* str::trim
Trim(s) == TrimEnd(TrimStart(s))

\* CacheManager::local_version
local_version ==
  IF version_txt.exists THEN Some(Trim(version_txt.text)) ELSE None

\* data.version first, then meta.version
ExtractVersion(body) ==
  IF body.data.some THEN body.data ELSE body.meta

\* remote_version without the early return on a remembered token: a request
\* goes out at every evaluation of an online session.
remote_version_NoMemo(p, reply) ==
  IF offline[p]
    THEN [res |-> "Ok", val |-> None, cache |-> remote_ver[p],
          sent |-> FALSE, hit |-> FALSE]
  ELSE IF reply.status = "conn_err"
    THEN [res |-> "Ok", val |-> None, cache |-> remote_ver[p],
          sent |-> TRUE, hit |-> FALSE]
  ELSE IF reply.status \in {"http_err", "not_json"}
    THEN [res |-> "Http", val |-> None, cache |-> remote_ver[p],
          sent |-> TRUE, hit |-> FALSE]
  ELSE [res |-> "Ok", val |-> ExtractVersion(reply.body),
        cache |-> ExtractVersion(reply.body), sent |-> TRUE, hit |-> FALSE]

\* CacheManager::remote_version, given the reply the metadata endpoint would
\* give.  res/val: the Result returned; cache: remote_ver afterwards; sent:
\* a request went out; hit: answered from remote_ver.
remote_version(p, reply) ==
  IF remote_ver[p].some
    THEN [res |-> "Ok", val |-> remote_ver[p], cache |-> remote_ver[p],
          sent |-> FALSE, hit |-> TRUE]
  ELSE IF offline[p]
    THEN [res |-> "Ok", val |-> None, cache |-> remote_ver[p],
          sent |-> FALSE, hit |-> FALSE]
  ELSE IF reply.status = "conn_err"
    THEN [res |-> "Ok", val |-> None, cache |-> remote_ver[p],
          sent |-> TRUE, hit |-> FALSE]
  ELSE IF reply.status \in {"http_err", "not_json"}
    THEN [res |-> "Http", val |-> None, cache |-> remote_ver[p],
          sent |-> TRUE, hit |-> FALSE]
  ELSE [res |-> "Ok", val |-> ExtractVersion(reply.body),
        cache |-> ExtractVersion(reply.body), sent |-> TRUE, hit |-> FALSE]

NoCheck(p) ==
  [res |-> "Ok", val |-> None, cache |-> remote_ver[p], sent |-> FALSE, hit |-> FALSE]

\* CacheManager::is_stale.  stale: the boolean returned when res is "Ok";
\* rv: the remote_version() evaluation it made, if any.
is_stale(p, reply) ==
  LET local == local_version IN
  IF ~local.some
    THEN [res |-> "Ok", stale |-> TRUE, rv |-> NoCheck(p)]
  ELSE LET remote == remote_version(p, reply) IN
    IF remote.res # "Ok"
      THEN [res |-> remote.res, stale |-> FALSE, rv |-> remote]
    ELSE IF ~remote.val.some
      THEN [res |-> "Ok", stale |-> FALSE, rv |-> remote]
    ELSE [res |-> "Ok", stale |-> local.v # remote.val.v, rv |-> remote]

Exists(path) == store[path].kind # "absent"

\* ensure_parquet / ensure_json without the `if self.offline` block: a
\* missing or stale file is downloaded whatever the mode.
ensure_decision_NoOfflineBlock(p, table, name, reply) ==
  IF name \notin DOMAIN table
    THEN [next |-> "err", res |-> "NotFound", path |-> <<>>, rv |-> NoCheck(p)]
  ELSE
    LET local_path == table[name]
        st == IF ~Exists(local_path)
                THEN [res |-> "Ok", stale |-> TRUE, rv |-> NoCheck(p)]
                ELSE is_stale(p, reply)
    IN IF st.res # "Ok"
         THEN [next |-> "err", res |-> st.res, path |-> local_path, rv |-> st.rv]
       ELSE IF st.stale
         THEN [next |-> "download", res |-> "Ok", path |-> local_path, rv |-> st.rv]
       ELSE [next |-> "ok", res |-> "Ok", path |-> local_path, rv |-> st.rv]

\* ensure_parquet / ensure_json looking the name up in both file tables.
ensure_decision_AnyTable(p, table, name, reply) ==
  LET files == parquet_files @@ json_files IN
  IF name \notin DOMAIN files
    THEN [next |-> "err", res |-> "NotFound", path |-> <<>>, rv |-> NoCheck(p)]
  ELSE
    LET local_path == files[name]
        st == IF ~Exists(local_path)
                THEN [res |-> "Ok", stale |-> TRUE, rv |-> NoCheck(p)]
                ELSE is_stale(p, reply)
    IN IF st.res # "Ok"
         THEN [next |-> "err", res |-> st.res, path |-> local_path, rv |-> st.rv]
       ELSE IF st.stale
         THEN IF offline[p]
                THEN IF Exists(local_path)
                       THEN [next |-> "ok", res |-> "Ok", path |-> local_path, rv |-> st.rv]
                       ELSE [next |-> "err", res |-> "NotFound", path |-> local_path, rv |-> st.rv]
                ELSE [next |-> "download", res |-> "Ok", path |-> local_path, rv |-> st.rv]
       ELSE [next |-> "ok", res |-> "Ok", path |-> local_path, rv |-> st.rv]

\* The head of ensure_parquet / ensure_json: the table lookup and the test
\* `!local_path.exists() || self.is_stale()?`, down to the decision taken.
\*   next = "err"      : return Err(res)
\*   next = "ok"       : return Ok(local_path)
\*   next = "download" : go on to download_file
ensure_decision(p, table, name, reply) ==
  IF name \notin DOMAIN table
    THEN [next |-> "err", res |-> "NotFound", path |-> <<>>, rv |-> NoCheck(p)]
  ELSE
    LET local_path == table[name]
        st == IF ~Exists(local_path)
                THEN [res |-> "Ok", stale |-> TRUE, rv |-> NoCheck(p)]
                ELSE is_stale(p, reply)
    IN IF st.res # "Ok"
         THEN [next |-> "err", res |-> st.res, path |-> local_path, rv |-> st.rv]
       ELSE IF st.stale
         THEN IF offline[p]
                THEN IF Exists(local_path)
                       THEN [next |-> "ok", res |-> "Ok", path |-> local_path, rv |-> st.rv]
                       ELSE [next |-> "err", res |-> "NotFound", path |-> local_path, rv |-> st.rv]
                ELSE [next |-> "download", res |-> "Ok", path |-> local_path, rv |-> st.rv]
       ELSE [next |-> "ok", res |-> "Ok", path |-> local_path, rv |-> st.rv]

\* What reading and parsing the file at path gives in load_json: "Ok", "Io"
\* (File::open or read_to_string failed: returned with `?`) or "Json"
\* (serde_json::from_str failed).
read_json(path, content) ==
  IF extension(path) = "gz"
    THEN IF content.kind = "data" THEN "Ok" ELSE "Io"
  ELSE IF content.kind \in {"absent", "garbage_bytes"} THEN "Io"
  ELSE IF content.kind = "data" THEN "Ok"
  ELSE "Json"

\* ----------------------------------------------------------------- helpers

Result(f, n, r) == [fn |-> f, name |-> n, res |-> r, ver |-> None, stale |-> FALSE]

\* The effect of one remote_version() evaluation on the session.
ApplyCheck(p, rv) ==
  /\ rv.sent => meta_requests[p] < MaxMetaRequests
  /\ remote_ver' = [remote_ver EXCEPT ![p] = rv.cache]
  /\ meta_requests' = [meta_requests EXCEPT ![p] = IF rv.sent THEN @ + 1 ELSE @]

CheckEvent(p, rv) ==
  [by |-> p, sent |-> IF rv.sent THEN {"meta"} ELSE {}, hit |-> rv.hit, save |-> "none",
   skip |-> FALSE]

\* The public call f(name) of session p returns r.
Return(p, f, name, r) ==
  /\ pc' = [pc EXCEPT ![p] = "idle"]
  /\ op' = [op EXCEPT ![p] = NoOp]
  /\ dest' = [dest EXCEPT ![p] = <<>>]
  /\ ret' = [ret EXCEPT ![p] = Result(f, name, r)]

\* ensure_parquet / ensure_json returned Ok(path) inside the public call
\* f(name): the call returns, or goes on with the file (load_json parses it,
\* ensure_view registers it).
Proceed(p, f, name, path) ==
  IF f \in {"load_json", "ensure_view"}
    THEN /\ pc' = [pc EXCEPT ![p] = IF f = "load_json" THEN "parse" ELSE "register"]
         /\ op' = [op EXCEPT ![p] = [fn |-> f, name |-> name]]
         /\ dest' = [dest EXCEPT ![p] = path]
         /\ ret' = [ret EXCEPT ![p] = NoRet]
    ELSE Return(p, f, name, "Ok")

\* ------------------------------------------------- CacheManager: the calls

\* pub fn remote_version
RemoteVersion(p) ==
  /\ pc[p] = "idle"
  /\ \E reply \in MetaReplies :
       LET rv == remote_version(p, reply) IN
       /\ ApplyCheck(p, rv)
       /\ ev' = CheckEvent(p, rv)
       /\ ret' = [ret EXCEPT ![p] =
            [fn |-> "remote_version", name |-> "none", res |-> rv.res,
             ver |-> rv.val, stale |-> FALSE]]
  /\ UNCHANGED <<shared, offline, registered_views, pc, op, dest, buf, err, fd, outside_cache>>

\* pub fn is_stale
IsStale(p) ==
  /\ pc[p] = "idle"
  /\ \E reply \in MetaReplies :
       LET st == is_stale(p, reply) IN
       /\ ApplyCheck(p, st.rv)
       /\ ev' = CheckEvent(p, st.rv)
       /\ ret' = [ret EXCEPT ![p] =
            [fn |-> "is_stale", name |-> "none", res |-> st.res,
             ver |-> None, stale |-> st.stale]]
  /\ UNCHANGED <<shared, offline, registered_views, pc, op, dest, buf, err, fd, outside_cache>>

\* The first step of the public call f(name) that starts with ensure_parquet
\* or ensure_json over the given table: everything up to the call of
\* download_file.
EnsureBegin(p, f, table, name) ==
  /\ pc[p] = "idle"
  /\ \E reply \in MetaReplies :
       LET d == ensure_decision(p, table, name, reply) IN
       /\ ApplyCheck(p, d.rv)
       /\ ev' = CheckEvent(p, d.rv)
       /\ CASE d.next = "err" -> Return(p, f, name, d.res)
            [] d.next = "ok" -> Proceed(p, f, name, d.path)
            [] d.next = "download" ->
                 /\ pc' = [pc EXCEPT ![p] = "send"]
                 /\ op' = [op EXCEPT ![p] = [fn |-> f, name |-> name]]
                 /\ dest' = [dest EXCEPT ![p] = d.path]
                 /\ ret' = [ret EXCEPT ![p] = NoRet]
  /\ UNCHANGED <<shared, offline, registered_views, buf, err, fd, outside_cache>>

\* pub fn ensure_parquet
EnsureParquet(p, name) == EnsureBegin(p, "ensure_parquet", parquet_files, name)

\* pub fn ensure_json
EnsureJson(p, name) == EnsureBegin(p, "ensure_json", json_files, name)

\* pub fn load_json, up to the return of ensure_json
LoadJson(p, name) == EnsureBegin(p, "load_json", json_files, name)

\* -------------------------------------------- CacheManager::download_file

\* The closure failed with error e: go on to the clean-up.
Fail(p, e) ==
  /\ err' = [err EXCEPT ![p] = e]
  /\ pc' = [pc EXCEPT ![p] = "cleanup"]

\* The path at which the file a descriptor has open is found after tmp was
\* renamed over final (the old file at final is unlinked).
Unlinked == <<"(unlinked)">>

AfterRename(f, tmp, final) ==
  IF f.at = tmp THEN [f EXCEPT !.at = final]
  ELSE IF f.at = final THEN [f EXCEPT !.at = Unlinked]
  ELSE f

AfterRemove(f, path) ==
  IF f.at = path THEN [f EXCEPT !.at = Unlinked] ELSE f

\* client.get(&url).send()?.error_for_status()?  and  resp.bytes()?
DownloadSend(p) ==
  /\ pc[p] = "send"
  /\ \E reply \in FileReplies :
       IF reply = "ok"
         THEN /\ buf' = [buf EXCEPT ![p] = Data(cdn)]
              /\ pc' = [pc EXCEPT ![p] = "write_open"]
              /\ err' = err
         ELSE /\ Fail(p, "Http")
              /\ buf' = buf
  /\ ev' = [Quiet(p) EXCEPT !.sent = {"file"}]
  /\ UNCHANGED <<shared, session, op, dest, fd, ret, outside_cache>>

\* fs::write(&tmp_dest, &bytes), first half: File::create creates the temp
\* file or truncates the one that is there.
WriteOpen(p) ==
  /\ pc[p] = "write_open"
  /\ \E ok \in BOOLEAN :
       LET tmp == tmp_dest(dest[p]) IN
       IF ok
         THEN /\ store' = [store EXCEPT ![tmp] = Partial]
              /\ fd' = [q \in Procs |->
                   IF q = p THEN [at |-> tmp, clean |-> TRUE]
                   ELSE IF fd[q].at = tmp THEN [fd[q] EXCEPT !.clean = FALSE]
                   ELSE fd[q]]
              /\ pc' = [pc EXCEPT ![p] = "write_data"]
              /\ err' = err
         ELSE /\ Fail(p, "Io")
              /\ UNCHANGED <<store, fd>>
  /\ ev' = Quiet(p)
  /\ UNCHANGED <<cdn, published, version_txt, observed, session, op, dest, buf, ret, outside_cache>>

\* fs::write(&tmp_dest, &bytes), second half: write_all into the open file,
\* wherever that file is by now.  The file is complete when the writer was
\* the last to truncate it.
WriteData(p) ==
  /\ pc[p] = "write_data"
  /\ \E ok \in BOOLEAN :
       IF ok
         THEN /\ store' = IF fd[p].at \in AllPaths /\ fd[p].clean
                            THEN [store EXCEPT ![fd[p].at] = buf[p]]
                            ELSE store
              /\ pc' = [pc EXCEPT ![p] = "rename"]
              /\ err' = err
         ELSE /\ Fail(p, "Io")
              /\ store' = store
  /\ fd' = [fd EXCEPT ![p] = NoFd]
  /\ ev' = Quiet(p)
  /\ UNCHANGED <<cdn, published, version_txt, observed, session, op, dest, buf, ret, outside_cache>>

\* fs::rename(&tmp_dest, dest)
Rename(p) ==
  /\ pc[p] = "rename"
  /\ \E ok \in BOOLEAN :
       LET tmp == tmp_dest(dest[p]) IN
       IF ok /\ Exists(tmp)
         THEN /\ store' = [store EXCEPT ![dest[p]] = store[tmp], ![tmp] = Absent]
              /\ fd' = [q \in Procs |-> AfterRename(fd[q], tmp, dest[p])]
              /\ pc' = [pc EXCEPT ![p] = "save"]
              /\ err' = err
         ELSE /\ Fail(p, "Io")
              /\ UNCHANGED <<store, fd>>
  /\ ev' = Quiet(p)
  /\ UNCHANGED <<cdn, published, version_txt, observed, session, op, dest, buf, ret, outside_cache>>

\* download_file without the clean-up: the error is returned and the temp
\* file stays.
Cleanup_KeepsTemp(p) ==
  /\ pc[p] = "cleanup"
  /\ Return(p, op[p].fn, op[p].name, err[p])
  /\ err' = [err EXCEPT ![p] = "none"]
  /\ buf' = [buf EXCEPT ![p] = Absent]
  /\ ev' = Quiet(p)
  /\ UNCHANGED <<cdn, published, store, version_txt, observed, session, fd, outside_cache>>

\* ensure_* falling back to the cached copy when the download failed: the
\* call returns Ok(path) if a file is at the final path.
Cleanup_FallsBack(p) ==
  /\ pc[p] = "cleanup"
  /\ LET tmp == tmp_dest(dest[p]) IN
       /\ store' = [store EXCEPT ![tmp] = Absent]
       /\ fd' = [q \in Procs |-> AfterRemove(fd[q], tmp)]
  /\ Return(p, op[p].fn, op[p].name, IF Exists(dest[p]) THEN "Ok" ELSE err[p])
  /\ err' = [err EXCEPT ![p] = "none"]
  /\ buf' = [buf EXCEPT ![p] = Absent]
  /\ ev' = Quiet(p)
  /\ UNCHANGED <<cdn, published, version_txt, observed, session, outside_cache>>

\* if result.is_err() { let _ = fs::remove_file(&tmp_dest); }  result
\* and the `?` of the callers: the public call returns the error.
Cleanup(p) ==
  /\ pc[p] = "cleanup"
  /\ LET tmp == tmp_dest(dest[p]) IN
       /\ store' = [store EXCEPT ![tmp] = Absent]
       /\ fd' = [q \in Procs |-> AfterRemove(fd[q], tmp)]
  /\ Return(p, op[p].fn, op[p].name, err[p])
  /\ err' = [err EXCEPT ![p] = "none"]
  /\ buf' = [buf EXCEPT ![p] = Absent]
  /\ ev' = Quiet(p)
  /\ UNCHANGED <<cdn, published, version_txt, observed, session, outside_cache>>

\* save_version writing the token the way local_version reads it, trimmed.
save_version_Trimmed(version, outcome) ==
  CASE outcome = "ok" -> VersionFile(Trim(version))
    [] outcome = "write_err" -> VersionFile(<<>>)
    [] outcome = "create_err" -> version_txt

\* CacheManager::save_version: `let _ = fs::write(version_file, version)`.
save_version(version, outcome) ==
  CASE outcome = "ok" -> VersionFile(version)
    [] outcome = "write_err" -> VersionFile(<<>>)
    [] outcome = "create_err" -> version_txt

\* After download_file returned Ok:
\*   if let Ok(Some(version)) = self.remote_version() { self.save_version(&version); }
\*   Ok(local_path)
SaveVersion(p) ==
  /\ pc[p] = "save"
  /\ \E reply \in MetaReplies, outcome \in WriteOutcomes :
       LET rv == remote_version(p, reply)
           saves == rv.res = "Ok" /\ rv.val.some
       IN
       /\ ApplyCheck(p, rv)
       /\ version_txt' = IF saves THEN save_version(rv.val.v, outcome) ELSE version_txt
       /\ ev' = [CheckEvent(p, rv) EXCEPT !.save =
                   IF ~saves THEN "none" ELSE IF outcome = "ok" THEN "ok" ELSE "failed"]
  /\ Proceed(p, op[p].fn, op[p].name, dest[p])
  /\ buf' = [buf EXCEPT ![p] = Absent]
  /\ UNCHANGED <<cdn, published, store, observed, offline, registered_views, err, fd, outside_cache>>

\* ------------------------------------------------ CacheManager::load_json

\* load_json after ensure_json returned the path: read, parse, and on a
\* parse error remove the file and return NotFound.
LoadJsonParse(p) ==
  /\ pc[p] = "parse"
  /\ LET path == dest[p]
         parse_result == read_json(path, store[path])
     IN CASE parse_result = "Ok" ->
               /\ store' = store
               /\ Return(p, "load_json", op[p].name, "Ok")
          [] parse_result = "Io" ->
               /\ store' = store
               /\ Return(p, "load_json", op[p].name, "Io")
          [] parse_result = "Json" ->
               /\ store' = [store EXCEPT ![path] = Absent]
               /\ Return(p, "load_json", op[p].name, "NotFound")
  /\ fd' = [q \in Procs |->
       IF store'[dest[p]] # store[dest[p]] THEN AfterRemove(fd[q], dest[p]) ELSE fd[q]]
  /\ ev' = Quiet(p)
  /\ UNCHANGED <<cdn, published, version_txt, observed, session, buf, err, outside_cache>>

\* -------------------------------------------------------------- Connection

\* What the engine can answer to one registration: the schema introspection
\* (DESCRIBE) fails, the CREATE VIEW fails, or both succeed.
EngineOutcomes == {"describe_err", "create_err", "ok"}

\* Tables a caller registers from NDJSON files.
TableNames == {"prices_today"}

\* Connection::register_legalities_view: DESCRIBE, CREATE OR REPLACE VIEW,
\* then the insertion into registered_views.  A file that is not a complete
\* parquet file cannot be introspected.
register_legalities_view(p, content, outcome) ==
  IF outcome = "describe_err" \/ content.kind # "data"
    THEN [res |-> "DuckDb", views |-> registered_views[p]]
  ELSE IF outcome = "create_err"
    THEN [res |-> "DuckDb", views |-> registered_views[p]]
  ELSE [res |-> "Ok", views |-> registered_views[p] \cup {"card_legalities"}]

\* ensure_view inserting the name into registered_views before the CREATE
\* VIEW statement has run.
ensure_view_register_Early(p, view_name, content, outcome) ==
  IF outcome = "describe_err" \/ content.kind # "data"
    THEN [res |-> "DuckDb", views |-> registered_views[p]]
  ELSE IF outcome = "create_err"
    THEN [res |-> "DuckDb", views |-> registered_views[p] \cup {view_name}]
  ELSE [res |-> "Ok", views |-> registered_views[p] \cup {view_name}]

\* Connection::ensure_view after ensure_parquet returned the path.
ensure_view_register(p, view_name, content, outcome) ==
  IF view_name = "card_legalities"
    THEN register_legalities_view(p, content, outcome)
  ELSE IF outcome = "describe_err" \/ content.kind # "data"
    THEN [res |-> "DuckDb", views |-> registered_views[p]]
  ELSE IF outcome = "create_err"
    THEN [res |-> "DuckDb", views |-> registered_views[p]]
  ELSE [res |-> "Ok", views |-> registered_views[p] \cup {view_name}]

\* ensure_views / ensure_view without the test of registered_views: every
\* call goes to ensure_parquet and registers the view anew.
EnsureView_NoRegistryCheck(p, name) ==
  EnsureBegin(p, "ensure_view", parquet_files, name)

\* Connection::ensure_views(&[name]) / ensure_view, up to the return of
\* ensure_parquet: a registered name returns at once.  ensure_views over
\* several names is these calls one after the other, up to the first error.
EnsureView(p, name) ==
  IF name \in registered_views[p]
    THEN /\ pc[p] = "idle"
         /\ ret' = [ret EXCEPT ![p] = Result("ensure_view", name, "Ok")]
         /\ ev' = [Quiet(p) EXCEPT !.skip = TRUE]
         /\ UNCHANGED <<shared, session, pc, op, dest, buf, err, fd, outside_cache>>
    ELSE EnsureBegin(p, "ensure_view", parquet_files, name)

\* Connection::ensure_view, the registration proper.
RegisterView(p) ==
  /\ pc[p] = "register"
  /\ \E outcome \in EngineOutcomes :
       LET r == ensure_view_register(p, op[p].name, store[dest[p]], outcome) IN
       /\ registered_views' = [registered_views EXCEPT ![p] = r.views]
       /\ Return(p, "ensure_view", op[p].name, r.res)
  /\ ev' = Quiet(p)
  /\ UNCHANGED <<shared, offline, remote_ver, meta_requests, buf, err, fd, outside_cache>>

\* Connection::register_table_from_ndjson
RegisterTableFromNdjson(p, table_name) ==
  /\ pc[p] = "idle"
  /\ \E ok \in BOOLEAN :
       /\ registered_views' = [registered_views EXCEPT ![p] =
            IF ok THEN @ \cup {table_name} ELSE @]
       /\ ret' = [ret EXCEPT ![p] =
            Result("register_table_from_ndjson", table_name, IF ok THEN "Ok" ELSE "DuckDb")]
  /\ ev' = Quiet(p)
  /\ UNCHANGED <<shared, offline, remote_ver, meta_requests, pc, op, dest, buf, err, fd, outside_cache>>

\* Connection::reset_views
ResetViews(p) ==
  /\ pc[p] = "idle"
  /\ registered_views' = [registered_views EXCEPT ![p] = {}]
  /\ ret' = [ret EXCEPT ![p] = Result("reset_views", "none", "Ok")]
  /\ ev' = Quiet(p)
  /\ UNCHANGED <<shared, offline, remote_ver, meta_requests, pc, op, dest, buf, err, fd, outside_cache>>

\* MtgjsonSdk::refresh: is_stale()?, and when stale CacheManager::clear()?
\* (remove_dir_all, create_dir_all) and reset_views().
Refresh(p) ==
  /\ pc[p] = "idle"
  /\ \E reply \in MetaReplies, cleared \in BOOLEAN :
       LET st == is_stale(p, reply)
           res == IF st.res # "Ok" THEN st.res
                  ELSE IF st.stale /\ ~cleared THEN "Io"
                  ELSE "Ok"
           clears == st.res = "Ok" /\ st.stale /\ cleared
       IN
       /\ ApplyCheck(p, st.rv)
       /\ ev' = CheckEvent(p, st.rv)
       /\ store' = IF clears THEN [q \in AllPaths |-> Absent] ELSE store
       /\ version_txt' = IF clears THEN NoVersionFile ELSE version_txt
       /\ fd' = IF clears
                  THEN [q \in Procs |->
                          IF fd[q].at \in AllPaths THEN [fd[q] EXCEPT !.at = Unlinked] ELSE fd[q]]
                  ELSE fd
       /\ registered_views' = [registered_views EXCEPT ![p] = IF clears THEN {} ELSE @]
       /\ ret' = [ret EXCEPT ![p] =
            [fn |-> "refresh", name |-> "none", res |-> res, ver |-> None,
             stale |-> res = "Ok" /\ st.stale]]
  /\ UNCHANGED <<cdn, published, observed, offline, pc, op, dest, buf, err, outside_cache>>

\* MtgjsonSdkBuilder::build after the previous SDK of the process was
\* dropped: CacheManager::new and Connection::new over the same cache
\* directory, with the builder's offline flag.
Build(p) ==
  /\ pc[p] = "idle"
  /\ \E off \in BOOLEAN : offline' = [offline EXCEPT ![p] = off]
  /\ remote_ver' = [remote_ver EXCEPT ![p] = None]
  /\ registered_views' = [registered_views EXCEPT ![p] = {}]
  /\ meta_requests' = [meta_requests EXCEPT ![p] = 0]
  /\ ret' = [ret EXCEPT ![p] = Result("build", "none", "Ok")]
  /\ ev' = Quiet(p)
  /\ UNCHANGED <<shared, pc, op, dest, buf, err, fd, outside_cache>>

\* ------------------------------------------------- environment: the actions

\* The CDN publishes a new version.
Publish ==
  /\ published < MaxPublish
  /\ \E v \in Tokens \ {cdn} : cdn' = v
  /\ published' = published + 1
  /\ ev' = Quiet(0)
  /\ UNCHANGED <<store, version_txt, observed, session, pc, op, dest, buf, err, fd, ret, outside_cache>>

\* Something outside the SDK overwrites a cached JSON file with garbage.
Corrupt ==
  /\ \E n \in DOMAIN json_files, g \in {GarbageText, GarbageBytes} :
       /\ Exists(json_files[n])
       /\ store' = [store EXCEPT ![json_files[n]] = g]
       /\ fd' = [q \in Procs |-> AfterRemove(fd[q], json_files[n])]
  /\ ev' = Quiet(0)
  /\ UNCHANGED <<cdn, published, version_txt, observed, session, pc, op, dest, buf, err, ret, outside_cache>>

\* A reader outside the sessions opens a final path and looks at the file.
ReadFinal ==
  /\ \E d \in DataPaths : observed' = store[d]
  /\ ev' = Quiet(0)
  /\ UNCHANGED <<cdn, published, store, version_txt, session, pc, op, dest, buf, err, fd, ret, outside_cache>>

\* --------------------------------------------- booster: weighted sampling

\* Most cards asked of one sheet in one draw.
MaxPicks == 4

\* Card identifiers, in the order of their strings (the order in which a
\* serde_json::Map is iterated).
UuidOrder == <<"a", "b", "c">>

Uuids == {UuidOrder[i] : i \in DOMAIN UuidOrder}

\* Card weights as the sheet-cards table may hold them.
Weights == {-1, 0, 1, 2}

\* The "cards" object of a sheet: identifier -> weight.
CardMaps == UNION {[S -> Weights] : S \in SUBSET Uuids}

\* The sheet objects get_sheet_data can build.
SheetData == [allowDuplicates : BOOLEAN, cards : CardMaps]

\* The keys of a map in iteration order.
Keys(cards) == SelectSeq(UuidOrder, LAMBDA u : u \in DOMAIN cards)

\* weights.iter().sum()
RECURSIVE Sum(_)
Sum(ws) == IF ws = <<>> THEN 0 ELSE Head(ws) + Sum(Tail(ws))

\* rng.gen_range(0..=total_weight): the upper end can be rolled too.
gen_range_Inclusive(total_weight) == 0 .. total_weight

\* rng.gen_range(0..total_weight): the values the roll can take.  The call
\* panics when the range is empty.
gen_range(total_weight) == 0 .. (total_weight - 1)

\* The guard of a draw written `total_weight < 0`.
no_weight_Strict(total_weight) == total_weight < 0

\* if total_weight <= 0 { return / break }
no_weight(total_weight) == total_weight <= 0

\* A walk that also stops where the roll has come down to exactly zero.
RECURSIVE RouletteFrom_StopsAtZero(_, _, _)
RouletteFrom_StopsAtZero(weights, roll, i) ==
  IF i > Len(weights) THEN 0
  ELSE IF roll - weights[i] <= 0 THEN i
  ELSE RouletteFrom_StopsAtZero(weights, roll - weights[i], i + 1)

\* for (i, &w) in weights.iter().enumerate() { roll -= w; if roll < 0 { .. i ..; break } }
\* The (1-based) position at which the walk stops, 0 when it runs off the end.
RECURSIVE RouletteFrom(_, _, _)
RouletteFrom(weights, roll, i) ==
  IF i > Len(weights) THEN 0
  ELSE IF roll - weights[i] < 0 THEN i
  ELSE RouletteFrom(weights, roll - weights[i], i + 1)

Roulette(weights, roll) == RouletteFrom(weights, roll, 1)

\* A removal that leaves the vector as it is.
remove_Keeps(v, i) == v

\* Vec::remove(i), i counted from 1.
remove(v, i) == SubSeq(v, 1, i - 1) \o SubSeq(v, i + 1, Len(v))

Min(a, b) == IF a <= b THEN a ELSE b

\* pick_from_sheet / weighted_choices_* returned results.
PickDone(results) == [pick EXCEPT !.pc = "done", !.results = results]

\* pick_from_sheet(sheet, count) up to the first roll: the parallel vectors
\* of identifiers and weights, and the head of weighted_choices_with_replacement
\* or weighted_choices_without_replacement.
PickFromSheet ==
  /\ pick.pc = "call"
  /\ LET cards == pick.sheet.cards
         uuids == Keys(cards)
         weights == [i \in DOMAIN uuids |-> cards[uuids[i]]]
         started == [pick EXCEPT !.uuids = uuids, !.weights = weights,
                                 !.remaining_uuids = uuids,
                                 !.remaining_weights = weights]
     IN pick' =
          IF uuids = <<>> THEN PickDone(<<>>)
          ELSE IF pick.sheet.allowDuplicates
            THEN IF no_weight(Sum(weights)) \/ pick.count = 0
                   THEN [started EXCEPT !.pc = "done"]
                   ELSE [started EXCEPT !.pc = "with_replacement", !.left = pick.count]
          ELSE LET actual_count == Min(pick.count, Len(uuids)) IN
               IF actual_count = 0
                 THEN [started EXCEPT !.pc = "done"]
                 ELSE [started EXCEPT !.pc = "without_replacement", !.left = actual_count]
  /\ UNCHANGED <<cache_layer, view, db, box, pack, converter, builder>>

\* weighted_choices_with_replacement: one turn of `for _ in 0..count`.
WithReplacementDraw ==
  /\ pick.pc = "with_replacement"
  /\ LET total_weight == Sum(pick.weights) IN
     IF gen_range(total_weight) = {}
       THEN pick' = [pick EXCEPT !.pc = "panic"]
       ELSE \E roll \in gen_range(total_weight) :
              LET i == Roulette(pick.weights, roll)
                  results == IF i > 0 THEN Append(pick.results, pick.uuids[i])
                             ELSE pick.results
              IN pick' = [pick EXCEPT !.results = results,
                                      !.left = @ - 1,
                                      !.pc = IF pick.left = 1 THEN "done" ELSE @]
  /\ UNCHANGED <<cache_layer, view, db, box, pack, converter, builder>>

\* weighted_choices_without_replacement: one turn of `for _ in 0..actual_count`.
WithoutReplacementDraw ==
  /\ pick.pc = "without_replacement"
  /\ LET total_weight == Sum(pick.remaining_weights) IN
     IF pick.remaining_uuids = <<>> \/ no_weight(total_weight)
       THEN pick' = [pick EXCEPT !.pc = "done"]
     ELSE IF gen_range(total_weight) = {}
       THEN pick' = [pick EXCEPT !.pc = "panic"]
     ELSE \E roll \in gen_range(total_weight) :
            LET i == Roulette(pick.remaining_weights, roll)
                picked_idx == IF i > 0 THEN i ELSE Len(pick.remaining_uuids)
            IN pick' = [pick EXCEPT
                 !.results = Append(@, pick.remaining_uuids[picked_idx]),
                 !.remaining_uuids = remove(@, picked_idx),
                 !.remaining_weights = remove(@, picked_idx),
                 !.left = @ - 1,
                 !.pc = IF pick.left = 1 THEN "done" ELSE @]
  /\ UNCHANGED <<cache_layer, view, db, box, pack, converter, builder>>

\* A pick_from_sheet call about to run.
PickCall(sheet, count) ==
  [pc |-> "call", sheet |-> sheet, count |-> count, uuids |-> <<>>, weights |-> <<>>,
   remaining_uuids |-> <<>>, remaining_weights |-> <<>>, results |-> <<>>, left |-> 0]

\* ------------------------------------------------------ booster: open_pack

\* Set codes as the caller may write them, as sequences of characters.
SetCodeInputs == {<<"n", "e">>, <<"N", "E">>, <<"o", "t">>}

BoosterTypes == {"draft", "play"}

\* char::to_uppercase over the letters in use.
UpperChar(c) ==
  CASE c = "n" -> "N"
    [] c = "e" -> "E"
    [] c = "o" -> "O"
    [] c = "t" -> "T"
    [] OTHER -> c

\* str::to_uppercase
to_uppercase(str) == [i \in DOMAIN str |-> UpperChar(str[i])]

\* Sheet names, in the order of their strings.
SheetOrder == <<"common", "foil">>

\* The rows of the booster tables for one booster of set NE: its templates
\* (index i - 1 has weight template_weights[i]), the sheets of template 0
\* (sheet name -> picks; template 1 takes one card of "common"), and the two
\* sheets; next to them one booster of set OT, always the same.
BoosterTables(template_weights, sheets0, common_dup, common_cards, foil_cards, cards) ==
  [content_weights |->
     {[setCode |-> <<"N", "E">>, boosterName |-> "draft", boosterIndex |-> i - 1,
       boosterWeight |-> template_weights[i]] : i \in DOMAIN template_weights}
       \cup {[setCode |-> <<"O", "T">>, boosterName |-> "play", boosterIndex |-> 0,
              boosterWeight |-> 1]},
   contents |->
     {[setCode |-> <<"N", "E">>, boosterName |-> "draft", boosterIndex |-> 0,
       sheetName |-> n, sheetPicks |-> sheets0[n]] : n \in DOMAIN sheets0}
       \cup {[setCode |-> <<"N", "E">>, boosterName |-> "draft", boosterIndex |-> i - 1,
              sheetName |-> "common", sheetPicks |-> 1] :
                i \in DOMAIN template_weights \ {1}}
       \cup {[setCode |-> <<"O", "T">>, boosterName |-> "play", boosterIndex |-> 0,
              sheetName |-> "common", sheetPicks |-> 1]},
   sheets |->
     {[setCode |-> <<"N", "E">>, boosterName |-> "draft", sheetName |-> "common",
       sheetAllowDuplicates |-> common_dup]},
   sheet_cards |->
     {[setCode |-> <<"N", "E">>, boosterName |-> "draft", sheetName |-> "common",
       cardUuid |-> u, cardWeight |-> common_cards[u]] : u \in DOMAIN common_cards}
       \cup {[setCode |-> <<"N", "E">>, boosterName |-> "draft", sheetName |-> "foil",
              cardUuid |-> u, cardWeight |-> foil_cards[u]] : u \in DOMAIN foil_cards}
       \cup {[setCode |-> <<"O", "T">>, boosterName |-> "play", sheetName |-> "common",
              cardUuid |-> "c", cardWeight |-> 1]},
   cards |-> cards]

\* The tables the engine may serve.  The cards view (cards.parquet) is a
\* file of its own and need not hold every card the sheets name.
Databases ==
  {BoosterTables(tw, s0, dup, cc, fc, cs) :
     tw \in {<<>>, <<1>>, <<2, 1>>, <<0, 1>>, <<0, 0>>},
     s0 \in {<<>>} \cup {[n \in {"common", "foil"} |-> IF n = "foil" THEN 1 ELSE k] :
                           k \in {-1, 0, 1, 2}},
     dup \in BOOLEAN,
     cc \in {<<>>, [u \in {"a"} |-> 2], [u \in {"a", "b"} |-> 1],
             [u \in {"a", "b"} |-> IF u = "a" THEN 1 ELSE 0]},
     fc \in {<<>>, [u \in {"c"} |-> 1]},
     cs \in SUBSET Uuids}

\* What a call into the engine (ensure_views, then execute) can come back
\* with: "Ok", or the error `?` passes on.
EngineAnswers == {"Ok", "Http", "Io", "NotFound", "DuckDb"}

\* BoosterSimulator::available_types: SELECT DISTINCT "boosterName" ... WHERE "setCode" = ?
available_types(set_code) ==
  {r.boosterName : r \in {w \in db.content_weights : w.setCode = to_uppercase(set_code)}}

\* The elements of a finite set of integers in ascending order.
RECURSIVE Ascending(_)
Ascending(S) ==
  IF S = {} THEN <<>>
  ELSE LET least == CHOOSE x \in S : \A y \in S : x <= y
       IN <<least>> \o Ascending(S \ {least})

\* BoosterSimulator::get_pack_templates: one template per weight row, in the
\* order of boosterIndex, with the sheets the contents rows give that index.
get_pack_templates(set_code, booster_type) ==
  LET weight_rows == {r \in db.content_weights :
                        r.setCode = set_code /\ r.boosterName = booster_type}
      contents_rows == {r \in db.contents :
                          r.setCode = set_code /\ r.boosterName = booster_type}
      order == Ascending({r.boosterIndex : r \in weight_rows})
      sheets_of(idx) ==
        LET rows == {r \in contents_rows : r.boosterIndex = idx}
        IN [n \in {r.sheetName : r \in rows} |->
              (CHOOSE r \in rows : r.sheetName = n).sheetPicks]
  IN [i \in DOMAIN order |->
        [weight |-> (CHOOSE r \in weight_rows : r.boosterIndex = order[i]).boosterWeight,
         sheets |-> sheets_of(order[i])]]

\* pick_pack: the positions of `boosters` a roll can select.
pick_pack(boosters) ==
  LET weights == [i \in DOMAIN boosters |-> boosters[i].weight]
      total_weight == Sum(weights)
  IN IF total_weight <= 0
       THEN {[roll |-> i - 1, index |-> i] : i \in DOMAIN boosters}
       ELSE {[roll |-> roll,
              index |-> IF Roulette(weights, roll) > 0 THEN Roulette(weights, roll)
                        ELSE Len(boosters)] : roll \in gen_range(total_weight)}

\* A pick-count that reads a negative number as its magnitude.
as_pick_count_Magnitude(picks) == IF picks >= 0 THEN picks ELSE -picks

\* pick_count_val.as_u64().unwrap_or(0)
as_pick_count(picks) == IF picks >= 0 THEN picks ELSE 0

\* The sheets of a template as the loop visits them: (sheet_name, picks).
SheetEntries(sheets) ==
  LET names == SelectSeq(SheetOrder, LAMBDA n : n \in DOMAIN sheets)
  IN [i \in DOMAIN names |-> [name |-> names[i], picks |-> sheets[names[i]]]]

\* BoosterSimulator::get_sheet_data: None when the sheet has no card rows,
\* else the sheet object.
get_sheet_data(set_code, booster_type, sheet_name) ==
  LET props_rows == {r \in db.sheets : /\ r.setCode = set_code
                                        /\ r.boosterName = booster_type
                                        /\ r.sheetName = sheet_name}
      card_rows == {r \in db.sheet_cards : /\ r.setCode = set_code
                                            /\ r.boosterName = booster_type
                                            /\ r.sheetName = sheet_name}
      allow_duplicates ==
        IF props_rows = {} THEN FALSE
        ELSE (CHOOSE r \in props_rows : TRUE).sheetAllowDuplicates
  IN IF card_rows = {} THEN None
     ELSE Some([allowDuplicates |-> allow_duplicates,
                cards |-> [u \in {r.cardUuid : r \in card_rows} \ {""} |->
                             (CHOOSE r \in card_rows : r.cardUuid = u).cardWeight]])

\* BoosterSimulator::fetch_cards_by_uuids: the rows of the cards view for
\* the identifiers, in the order of the identifiers.
RECURSIVE fetch_cards_by_uuids(_)
fetch_cards_by_uuids(uuids) ==
  IF uuids = <<>> THEN <<>>
  ELSE (IF Head(uuids) \in db.cards THEN <<[uuid |-> Head(uuids)]>> ELSE <<>>)
         \o fetch_cards_by_uuids(Tail(uuids))

\* open_pack returned.
PackDone(res, cards) == [pack EXCEPT !.pc = "done", !.res = res, !.cards = cards]

\* open_pack answering an unconfigured booster with an empty pack.
no_configuration_EmptyPack == "Ok"

\* if pack_templates.is_empty() { return Err(MtgjsonError::NotFound(..)) }
no_configuration == "NotFound"

\* open_pack, steps 1 and 2: the templates of the booster and the choice of
\* one of them.
OpenPack(set_code, booster_type) ==
  /\ pack.pc = "idle"
  /\ \E answer \in EngineAnswers :
       LET upper == to_uppercase(set_code)
           pack_templates == get_pack_templates(upper, booster_type)
           called == [pc |-> "sheets", set_code |-> set_code, upper |-> upper,
                      booster_type |-> booster_type, answer |-> answer,
                      templates |-> pack_templates, roll |-> 0, template |-> 0,
                      todo |-> <<>>, all_uuids |-> <<>>, res |-> "none", cards |-> <<>>]
       IN IF answer # "Ok"
            THEN pack' = [called EXCEPT !.pc = "done", !.res = answer]
          ELSE IF pack_templates = <<>>
            THEN pack' = [called EXCEPT !.pc = "done", !.res = no_configuration]
          ELSE \E choice \in pick_pack(pack_templates) :
                 pack' = [called EXCEPT
                   !.roll = choice.roll,
                   !.template = choice.index,
                   !.todo = SheetEntries(pack_templates[choice.index].sheets)]
  /\ UNCHANGED <<cache_layer, view, db, box, pick, converter, builder>>

\* open_pack, step 3: the next sheet of the template.
NextSheet ==
  /\ pack.pc = "sheets"
  /\ pack.todo # <<>>
  /\ \E answer \in EngineAnswers :
       LET entry == Head(pack.todo)
           pick_count == as_pick_count(entry.picks)
           sheet == get_sheet_data(pack.upper, pack.booster_type, entry.name)
       IN IF pick_count = 0
            THEN pack' = [pack EXCEPT !.todo = Tail(@)] /\ pick' = pick
          ELSE IF answer # "Ok"
            THEN pack' = [PackDone(answer, <<>>) EXCEPT !.answer = answer] /\ pick' = pick
          ELSE IF ~sheet.some
            THEN pack' = [pack EXCEPT !.todo = Tail(@)] /\ pick' = pick
          ELSE /\ pack' = [pack EXCEPT !.pc = "drawing"]
               /\ pick' = PickCall(sheet.v, pick_count)
  /\ UNCHANGED <<cache_layer, view, db, box, converter, builder>>

\* all_uuids.extend(uuids)
SheetDrawn ==
  /\ pack.pc = "drawing"
  /\ pick.pc \in {"done", "panic"}
  /\ pack' = IF pick.pc = "panic" THEN PackDone("panic", <<>>)
             ELSE [pack EXCEPT !.pc = "sheets", !.todo = Tail(@),
                               !.all_uuids = @ \o pick.results]
  /\ pick' = NoPick
  /\ UNCHANGED <<cache_layer, view, db, box, converter, builder>>

\* open_pack, step 4: the card records of the identifiers drawn.
FetchCards ==
  /\ pack.pc = "sheets"
  /\ pack.todo = <<>>
  /\ \E answer \in EngineAnswers :
       pack' = IF pack.all_uuids = <<>> THEN PackDone("Ok", <<>>)
               ELSE IF answer # "Ok" THEN [PackDone(answer, <<>>) EXCEPT !.answer = answer]
               ELSE PackDone("Ok", fetch_cards_by_uuids(pack.all_uuids))
  /\ UNCHANGED <<cache_layer, view, db, box, pick, converter, builder>>

\* -------------------------------------------------------- booster: open_box

\* Numbers of packs asked of open_box: 0 .. MaxPacks.
MaxPacks == 2

\* open_box: let mut box_contents = Vec::with_capacity(packs);
OpenBox(set_code, booster_type, packs) ==
  /\ box.pc = "idle"
  /\ pack.pc = "idle"
  /\ box' = [pc |-> "loop", set_code |-> set_code, booster_type |-> booster_type,
             packs |-> packs, box_contents |-> <<>>, res |-> "none"]
  /\ UNCHANGED <<cache_layer, view, db, pack, pick, converter, builder>>

\* for _ in 0..packs { self.open_pack(set_code, booster_type) ..
BoxOpenPack ==
  /\ box.pc = "loop"
  /\ Len(box.box_contents) < box.packs
  /\ OpenPack(box.set_code, box.booster_type)

\* A failed open_pack ignored by the loop, which goes on to the next pack.
BoxPackReturned_SkipsFailed ==
  /\ box.pc = "loop"
  /\ pack.pc = "done"
  /\ box' = IF pack.res = "Ok"
              THEN [box EXCEPT !.box_contents = Append(@, pack.cards)]
            ELSE [box EXCEPT !.packs = @ - 1]
  /\ pack' = NoPack
  /\ UNCHANGED <<cache_layer, view, db, pick, converter, builder>>

\* .. let pack = self.open_pack(..)?; box_contents.push(pack); }
BoxPackReturned ==
  /\ box.pc = "loop"
  /\ pack.pc = "done"
  /\ box' = IF pack.res = "Ok"
              THEN [box EXCEPT !.box_contents = Append(@, pack.cards)]
            ELSE [box EXCEPT !.pc = "done", !.res = pack.res]
  /\ pack' = NoPack
  /\ UNCHANGED <<cache_layer, view, db, pick, converter, builder>>

\* Ok(box_contents)
BoxReturn ==
  /\ box.pc = "loop"
  /\ pack.pc = "idle"
  /\ Len(box.box_contents) = box.packs
  /\ box' = [box EXCEPT !.pc = "done", !.res = "Ok"]
  /\ UNCHANGED <<cache_layer, view, db, pack, pick, converter, builder>>

\* ------------------------------------------------------- build_csv_replace

\* Column names, each written as its stem and its last character, in the
\* order of their strings.
ColumnOrder ==
  <<<<"colorIdentit", "y">>, <<"nam", "e">>, <<"ruling", "s">>, <<"statu", "s">>,
    <<"type", "s">>, <<"variation", "s">>>>

ColumnNames == {ColumnOrder[i] : i \in DOMAIN ColumnOrder}

\* Column types DESCRIBE may report.
ColumnTypes == {"VARCHAR", "BIGINT"}

\* The schemas a parquet file may have: column name -> column type.
Schemas == UNION {[S -> ColumnTypes] : S \in SUBSET ColumnNames}

\* Views that ensure_view registers through build_csv_replace.
ReplaceViews == {"cards", "tokens", "sets"}

\* static_list_columns(), of the columns in use.
static_list_columns ==
  [cards |-> {<<"colorIdentit", "y">>, <<"type", "s">>, <<"variation", "s">>},
   tokens |-> {<<"colorIdentit", "y">>, <<"type", "s">>}]

\* ignored_columns(), of the columns in use.
ignored_columns == {<<"ruling", "s">>, <<"statu", "s">>}

\* json_cast_columns(), of the columns in use.
json_cast_columns == {<<"ruling", "s">>}

\* str::ends_with(char)
ends_with(col, ch) == col[Len(col)] = ch

\* A filter that asks only whether the file has the column.
is_varchar_AnyType(schema, col) == col \in DOMAIN schema

\* schema_map.get(col).map(|t| t == "VARCHAR").unwrap_or(false)
is_varchar(schema, col) ==
  IF col \in DOMAIN schema THEN schema[col] = "VARCHAR" ELSE FALSE

\* v.sort() of a set of column names.
Sorted(cols) == SelectSeq(ColumnOrder, LAMBDA c : c \in cols)

\* Connection::build_csv_replace: the columns rewritten by string_split and
\* the columns cast to JSON, in the order of the REPLACE clause.
build_csv_replace(schema, view_name) ==
  LET layer1 == IF view_name \in DOMAIN static_list_columns
                  THEN static_list_columns[view_name] ELSE {}
      layer2 == {col \in DOMAIN schema : /\ ~(schema[col] # "VARCHAR")
                                         /\ ~(col \in ignored_columns)
                                         /\ ends_with(col, "s")}
      candidates == layer1 \cup layer2
      final_cols == Sorted({col \in candidates : is_varchar(schema, col)})
      json_cols == Sorted({col \in json_cast_columns : is_varchar(schema, col)})
  IN [final_cols |-> final_cols, json_cols |-> json_cols,
      replace |-> final_cols \o json_cols # <<>>]

\* The call of build_csv_replace that ensure_view makes for a view.
BuildCsvReplace ==
  /\ view.fn = "build_csv_replace"
  /\ view.res = "none"
  /\ \E outcome \in {"describe_err", "ok"} :
       view' = IF outcome = "describe_err" THEN [view EXCEPT !.res = "DuckDb"]
               ELSE [view EXCEPT !.res = "Ok",
                                 !.clause = build_csv_replace(view.schema, view.view_name)]
  /\ UNCHANGED <<cache_layer, simulator, converter, builder>>

\* ------------------------------------------------ register_legalities_view

\* Source rows per file: 0 .. MaxRows.
MaxRows == 2

\* The columns card_legalities.parquet may have, in the order of the file.
LegalityColumns ==
  {<<"uuid">>, <<"uuid", "standard">>, <<"uuid", "standard", "modern">>,
   <<"standard", "modern">>}

\* The values of a column: the uuid column holds an identifier, a format
\* column a status or NULL (None).
ColumnValues(col) ==
  IF col = "uuid" THEN {Some("a"), Some("b")} ELSE {None, Some("Legal"), Some("Banned")}

\* The rows a file of the given columns may hold: column -> value.
SourceRows(all_cols) ==
  LET names == {all_cols[i] : i \in DOMAIN all_cols}
  IN {row \in [names -> {None, Some("a"), Some("b"), Some("Legal"), Some("Banned")}] :
        \A col \in names : row[col] \in ColumnValues(col)}

\* UNPIVOT (source) ON format_cols INTO NAME format VALUE status: a row per
\* source row and ON column, next to the columns that are not unpivoted.
RECURSIVE unpivot(_, _)
unpivot(rows, format_cols) ==
  IF rows = <<>> THEN <<>>
  ELSE [i \in DOMAIN format_cols |->
          [uuid |-> Head(rows)["uuid"], format |-> format_cols[i],
           status |-> Head(rows)[format_cols[i]]]]
         \o unpivot(Tail(rows), format_cols)

\* The view register_legalities_view creates over a file: the result of
\* CREATE OR REPLACE VIEW, and the columns and rows of the view.
legalities_view(all_cols, rows) ==
  LET format_cols == SelectSeq(all_cols, LAMBDA c : c # "uuid")
  IN IF format_cols = <<>>
       THEN [res |-> "Ok", columns |-> all_cols, rows |-> rows]
     ELSE IF \A i \in DOMAIN all_cols : all_cols[i] # "uuid"
       THEN [res |-> "DuckDb", columns |-> <<>>, rows |-> <<>>]
     ELSE [res |-> "Ok", columns |-> <<"uuid", "format", "status">>,
           rows |-> SelectSeq(unpivot(rows, format_cols), LAMBDA r : r.status.some)]

\* The call of register_legalities_view that ensure_view makes.
RegisterLegalitiesView ==
  /\ view.fn = "register_legalities_view"
  /\ view.res = "none"
  /\ \E outcome \in EngineOutcomes :
       view' = IF outcome # "ok" THEN [view EXCEPT !.res = "DuckDb"]
               ELSE LET created == legalities_view(view.all_cols, view.source)
                    IN [view EXCEPT !.res = created.res,
                                    !.columns = created.columns,
                                    !.rows = created.rows]
  /\ UNCHANGED <<cache_layer, simulator, converter, builder>>

\* ------------------------------------------------------- convert_value_ref

\* i64::MAX, scaled down; the other integer ranges follow from it.
I64Max == 7

I64 == (-I64Max - 1) .. I64Max

\* i128 and u64, on the same scale: both reach beyond i64.
I128 == (-4 * (I64Max + 1)) .. (4 * (I64Max + 1) - 1)

U64 == 0 .. (2 * I64Max + 1)

\* The integer variants of duckdb::types::ValueRef and their ranges.
IntegerVariants ==
  [TinyInt |-> -2 .. 1, SmallInt |-> -3 .. 2, Int |-> -4 .. 3, BigInt |-> I64,
   HugeInt |-> I128, UTinyInt |-> 0 .. 1, USmallInt |-> 0 .. 2, UInt |-> 0 .. 3,
   UBigInt |-> U64]

\* The values the engine can hand to convert_value_ref.
ValueRefs ==
  {[tag |-> "Null"]}
    \cup {[tag |-> "Boolean", b |-> b] : b \in BOOLEAN}
    \cup UNION {{[tag |-> t, n |-> n] : n \in IntegerVariants[t]} : t \in DOMAIN IntegerVariants}
    \cup {[tag |-> t, f |-> f] : t \in {"Float", "Double"}, f \in {"1.5", "NaN", "inf"}}
    \cup {[tag |-> "Text", bytes |-> <<"t">>], [tag |-> "Blob", bytes |-> <<"0a">>],
          [tag |-> "Date32", n |-> 1], [tag |-> "Timestamp", n |-> 1]}

DecimalDigit == <<"0", "1", "2", "3", "4", "5", "6", "7", "8", "9">>

RECURSIVE Decimal(_)
Decimal(n) ==
  IF n < 10 THEN <<DecimalDigit[n + 1]>>
  ELSE Decimal(n \div 10) \o <<DecimalDigit[(n % 10) + 1]>>

\* i128::to_string
to_string(n) == IF n < 0 THEN <<"-">> \o Decimal(-n) ELSE Decimal(n)

JsonNull == [kind |-> "Null"]

JsonNumber(n) == [kind |-> "Number", n |-> n]

JsonString(str) == [kind |-> "String", s |-> str]

\* connection.rs convert_value_ref
convert_value_ref(val) ==
  CASE val.tag = "Null" -> JsonNull
    [] val.tag = "Boolean" -> [kind |-> "Bool", b |-> val.b]
    [] val.tag \in {"TinyInt", "SmallInt", "Int", "BigInt"} -> JsonNumber(val.n)
    [] val.tag = "HugeInt" ->
         IF val.n \in I64 THEN JsonNumber(val.n) ELSE JsonString(to_string(val.n))
    [] val.tag \in {"Float", "Double"} ->
         IF val.f \in {"NaN", "inf"} THEN JsonNull ELSE JsonNumber(val.f)
    [] val.tag = "Text" -> JsonString(val.bytes)
    [] val.tag = "Blob" -> JsonString(<<"blob:">> \o val.bytes)
    [] OTHER -> JsonNull

\* The engine produces the next value of a result set.
NextValue ==
  /\ converted # NoValue
  /\ value_ref' \in ValueRefs
  /\ converted' = NoValue
  /\ UNCHANGED <<cache_layer, view, simulator, builder>>

\* Connection::execute, for one column of one row:
\* map.insert(col_name, convert_value_ref(row.get_ref(i)?))
Execute ==
  /\ converted = NoValue
  /\ converted' = convert_value_ref(value_ref)
  /\ UNCHANGED <<cache_layer, view, simulator, value_ref, builder>>

\* -------------------------------------------------------------- SqlBuilder

\* How many builder methods are called before build().
MaxCalls == 3

\* Values a caller binds, and the column it filters on.
BindValues == {"x", "y"}

Columns == {"c"}

\* SQL text is a sequence of tokens.  The token `?` carries the value the
\* caller supplied for it; every other token carries none.
Placeholder(value) == [q |-> "?", bound |-> value]

Text(words) == [i \in DOMAIN words |-> [q |-> words[i], bound |-> ""]]

\* The one-parameter WHERE methods and the text each puts around its `?`.
CompareMethods ==
  [where_eq |-> [before |-> <<"=">>, after |-> <<>>],
   where_gte |-> [before |-> <<">=">>, after |-> <<>>],
   where_lte |-> [before |-> <<"<=">>, after |-> <<>>],
   where_like |-> [before |-> <<"LIKE", "LOWER(">>, after |-> <<")">>],
   where_regex |-> [before |-> <<"regexp_matches(">>, after |-> <<")">>],
   where_fuzzy |-> [before |-> <<"jaro_winkler_similarity(">>, after |-> <<")", ">", "0.8">>]]

\* Sequences over S of length 0 .. n.
RECURSIVE SeqUpTo(_, _)
SeqUpTo(S, n) ==
  IF n = 0 THEN {<<>>}
  ELSE SeqUpTo(S, n - 1) \cup {Append(t, x) : t \in SeqUpTo(S, n - 1), x \in S}

\* [String]::join(sep) over clauses that are sequences of tokens.
RECURSIVE join(_, _)
join(clauses, sep) ==
  IF clauses = <<>> THEN <<>>
  ELSE IF Len(clauses) = 1 THEN clauses[1]
  ELSE clauses[1] \o Text(<<sep>>) \o join(Tail(clauses), sep)

\* SqlBuilder::new
new(table) ==
  [made |-> TRUE, calls |-> 0, from_table |-> table, where_clauses |-> <<>>,
   params |-> <<>>, group_by_cols |-> <<>>, having_clauses |-> <<>>,
   order_by_cols |-> <<>>, limit_val |-> None]

New ==
  /\ ~sb.made
  /\ sb' = new("cards")
  /\ UNCHANGED <<cache_layer, view, simulator, converter, built>>

\* A builder method may be called: the builder exists and the run goes on.
Callable == sb.made /\ sb.calls < MaxCalls

\* where_eq, where_gte, where_lte, where_like, where_regex, where_fuzzy
WhereCompare(method, column, value) ==
  /\ Callable
  /\ sb' = [sb EXCEPT
       !.where_clauses = Append(@, Text(<<column>> \o CompareMethods[method].before)
                                     \o <<Placeholder(value)>>
                                     \o Text(CompareMethods[method].after)),
       !.params = Append(@, value),
       !.calls = @ + 1]
  /\ UNCHANGED <<cache_layer, view, simulator, converter, built>>

\* SqlBuilder::where_in
WhereIn(column, values) ==
  /\ Callable
  /\ sb' = IF values = <<>>
             THEN [sb EXCEPT !.where_clauses = Append(@, Text(<<"FALSE">>)), !.calls = @ + 1]
             ELSE [sb EXCEPT
               !.where_clauses =
                  Append(@, Text(<<column, "IN", "(">>)
                              \o join([i \in DOMAIN values |-> <<Placeholder(values[i])>>], ",")
                              \o Text(<<")">>)),
               !.params = @ \o values,
               !.calls = @ + 1]
  /\ UNCHANGED <<cache_layer, view, simulator, converter, built>>

\* SqlBuilder::where_or, each condition being `column = ?` with its value.
WhereOr(column, values) ==
  /\ Callable
  /\ sb' = IF values = <<>>
             THEN [sb EXCEPT !.calls = @ + 1]
             ELSE [sb EXCEPT
               !.where_clauses =
                  Append(@, Text(<<"(">>)
                              \o join([i \in DOMAIN values |->
                                         Text(<<column, "=">>) \o <<Placeholder(values[i])>>], "OR")
                              \o Text(<<")">>)),
               !.params = @ \o values,
               !.calls = @ + 1]
  /\ UNCHANGED <<cache_layer, view, simulator, converter, built>>

\* SqlBuilder::where_clause("list_contains(column, ?)", &[value])
WhereClause(column, value) ==
  /\ Callable
  /\ sb' = [sb EXCEPT
       !.where_clauses = Append(@, Text(<<"list_contains(", column>>)
                                     \o <<Placeholder(value)>> \o Text(<<")">>)),
       !.params = @ \o <<value>>,
       !.calls = @ + 1]
  /\ UNCHANGED <<cache_layer, view, simulator, converter, built>>

\* SqlBuilder::group_by
GroupBy(column) ==
  /\ Callable
  /\ sb' = [sb EXCEPT !.group_by_cols = @ \o <<column>>, !.calls = @ + 1]
  /\ UNCHANGED <<cache_layer, view, simulator, converter, built>>

\* SqlBuilder::having("COUNT(*) > ?", &[value])
Having(value) ==
  /\ Callable
  /\ sb' = [sb EXCEPT
       !.having_clauses = Append(@, Text(<<"COUNT(*)", ">">>) \o <<Placeholder(value)>>),
       !.params = @ \o <<value>>,
       !.calls = @ + 1]
  /\ UNCHANGED <<cache_layer, view, simulator, converter, built>>

\* SqlBuilder::order_by
OrderBy(column) ==
  /\ Callable
  /\ sb' = [sb EXCEPT !.order_by_cols = @ \o <<column>>, !.calls = @ + 1]
  /\ UNCHANGED <<cache_layer, view, simulator, converter, built>>

\* SqlBuilder::limit
Limit(n) ==
  /\ Callable
  /\ sb' = [sb EXCEPT !.limit_val = Some(n), !.calls = @ + 1]
  /\ UNCHANGED <<cache_layer, view, simulator, converter, built>>

\* SqlBuilder::build: the SQL text, as its clauses in order, and the
\* parameter list.
build(self) ==
  [made |-> TRUE,
   sql |->
     Text(<<"SELECT", "*", "FROM", self.from_table>>)
       \o (IF self.where_clauses # <<>>
             THEN Text(<<"WHERE">>) \o join(self.where_clauses, "AND") ELSE <<>>)
       \o (IF self.group_by_cols # <<>>
             THEN Text(<<"GROUP BY">> \o self.group_by_cols) ELSE <<>>)
       \o (IF self.having_clauses # <<>>
             THEN Text(<<"HAVING">>) \o join(self.having_clauses, "AND") ELSE <<>>)
       \o (IF self.order_by_cols # <<>>
             THEN Text(<<"ORDER BY">> \o self.order_by_cols) ELSE <<>>)
       \o (IF self.limit_val.some THEN Text(<<"LIMIT", self.limit_val.v>>) ELSE <<>>),
   params |-> self.params]

BuildSql ==
  /\ sb.made
  /\ built' = build(sb)
  /\ UNCHANGED <<cache_layer, view, simulator, converter, sb>>

\* The values the caller supplied for the placeholders of a SQL text, in
\* the order of the placeholders.
RECURSIVE BoundValues(_)
BoundValues(sql) ==
  IF sql = <<>> THEN <<>>
  ELSE (IF Head(sql).q = "?" THEN <<Head(sql).bound>> ELSE <<>>)
         \o BoundValues(Tail(sql))

\* ---------------------------------------------------------- specifications

\* The steps of download_file and of what follows it in ensure_*.
DownloadStep(p) ==
  \/ DownloadSend(p)
  \/ WriteOpen(p)
  \/ WriteData(p)
  \/ Rename(p)
  \/ Cleanup(p)
  \/ SaveVersion(p)

\* One session using its CacheManager, the CDN publishing, files being
\* corrupted behind its back.
Next ==
  \/ RemoteVersion(1)
  \/ IsStale(1)
  \/ EnsureParquet(1, "cards")
  \/ EnsureJson(1, "meta")
  \/ LoadJson(1, "meta")
  \/ DownloadStep(1)
  \/ LoadJsonParse(1)
  \/ Build(1)
  \/ Publish
  \/ Corrupt

Spec == Init /\ [][Next]_vars

\* One session using its Connection and refresh().
NextViews ==
  \/ \E n \in DOMAIN parquet_files : EnsureView(1, n)
  \/ DownloadStep(1)
  \/ RegisterView(1)
  \/ \E t \in TableNames : RegisterTableFromNdjson(1, t)
  \/ ResetViews(1)
  \/ Refresh(1)
  \/ Build(1)
  \/ Publish

SpecViews == Init /\ [][NextViews]_vars

\* Two sessions sharing the cache directory, both after the same file, and
\* a reader of the final paths.
NextShared ==
  \/ \E p \in Procs : EnsureParquet(p, "cards")
  \/ \E p \in Procs : DownloadStep(p)
  \/ ReadFinal

SpecShared == Init /\ [][NextShared]_vars

\* The logical names a caller may ask for: those of the two file tables and
\* one that is in neither.
RequestNames == DOMAIN parquet_files \cup DOMAIN json_files \cup {"no_such_file"}

\* One session asking its Connection for any name, and its CacheManager for
\* the names of the wrong table and of no table.
NextNames ==
  \/ \E n \in RequestNames : EnsureView(1, n)
  \/ \E n \in RequestNames \ DOMAIN parquet_files : EnsureParquet(1, n)
  \/ \E n \in RequestNames \ DOMAIN json_files : EnsureJson(1, n)
  \/ \E n \in RequestNames \ DOMAIN json_files : LoadJson(1, n)
  \/ DownloadStep(1)
  \/ RegisterView(1)
  \/ \E t \in TableNames : RegisterTableFromNdjson(1, t)
  \/ Build(1)

SpecNames == Init /\ [][NextNames]_vars

\* One pick_from_sheet call over any sheet and any pick-count.
InitDraw ==
  /\ CacheInit
  /\ \A p \in Procs : ~offline[p]
  /\ db = NoTables
  /\ pack = NoPack
  /\ box = NoBox
  /\ \E sheet \in SheetData, count \in 0 .. MaxPicks : pick = PickCall(sheet, count)
  /\ ConverterAtRest
  /\ BuilderAtRest
  /\ IntrospectionAtRest

NextDraw ==
  \/ PickFromSheet
  \/ WithReplacementDraw
  \/ WithoutReplacementDraw

SpecDraw == InitDraw /\ [][NextDraw]_vars

\* One open_pack call over any of the databases.
InitPack ==
  /\ CacheInit
  /\ \A p \in Procs : ~offline[p]
  /\ db \in Databases
  /\ pack = NoPack
  /\ box = NoBox
  /\ pick = NoPick
  /\ ConverterAtRest
  /\ BuilderAtRest
  /\ IntrospectionAtRest

NextPack ==
  \/ \E set_code \in SetCodeInputs, booster_type \in BoosterTypes :
       OpenPack(set_code, booster_type)
  \/ NextSheet
  \/ PickFromSheet
  \/ WithReplacementDraw
  \/ WithoutReplacementDraw
  \/ SheetDrawn
  \/ FetchCards

SpecPack == InitPack /\ [][NextPack]_vars

\* One open_box call over any of the databases.
NextBox ==
  \/ \E set_code \in SetCodeInputs, booster_type \in BoosterTypes, packs \in 0 .. MaxPacks :
       OpenBox(set_code, booster_type, packs)
  \/ BoxOpenPack
  \/ NextSheet
  \/ PickFromSheet
  \/ WithReplacementDraw
  \/ WithoutReplacementDraw
  \/ SheetDrawn
  \/ FetchCards
  \/ BoxPackReturned
  \/ BoxReturn

SpecBox == InitPack /\ [][NextBox]_vars

\* One build_csv_replace call over any schema and any view but the
\* legality view.
InitReplace ==
  /\ CacheInit
  /\ \A p \in Procs : ~offline[p]
  /\ SimulatorAtRest
  /\ ConverterAtRest
  /\ BuilderAtRest
  /\ \E schema \in Schemas, view_name \in ReplaceViews :
       view = [fn |-> "build_csv_replace", view_name |-> view_name, schema |-> schema,
               res |-> "none", clause |-> [final_cols |-> <<>>, json_cols |-> <<>>, replace |-> FALSE]]

NextReplace == BuildCsvReplace

SpecReplace == InitReplace /\ [][NextReplace]_vars

\* One register_legalities_view call over any file of legalities.
InitLegalities ==
  /\ CacheInit
  /\ \A p \in Procs : ~offline[p]
  /\ SimulatorAtRest
  /\ ConverterAtRest
  /\ BuilderAtRest
  /\ \E all_cols \in LegalityColumns :
       \E source \in UNION {[1 .. n -> SourceRows(all_cols)] : n \in 0 .. MaxRows} :
         view = [fn |-> "register_legalities_view", all_cols |-> all_cols,
                 source |-> source, res |-> "none", columns |-> <<>>, rows |-> <<>>]

NextLegalities == RegisterLegalitiesView

SpecLegalities == InitLegalities /\ [][NextLegalities]_vars

\* execute() converting the values of a result set, one after the other.
InitConvert ==
  /\ CacheInit
  /\ \A p \in Procs : ~offline[p]
  /\ SimulatorAtRest
  /\ value_ref \in ValueRefs
  /\ converted = NoValue
  /\ BuilderAtRest
  /\ IntrospectionAtRest

NextConvert ==
  \/ Execute
  \/ NextValue

SpecConvert == InitConvert /\ [][NextConvert]_vars

\* A caller chaining builder methods in any order, then build().
InitBuilder ==
  /\ CacheInit
  /\ \A p \in Procs : ~offline[p]
  /\ SimulatorAtRest
  /\ ConverterAtRest
  /\ BuilderAtRest
  /\ IntrospectionAtRest

NextBuilder ==
  \/ New
  \/ \E method \in DOMAIN CompareMethods, column \in Columns, value \in BindValues :
       WhereCompare(method, column, value)
  \/ \E column \in Columns, values \in SeqUpTo(BindValues, 2) : WhereIn(column, values)
  \/ \E column \in Columns, values \in SeqUpTo(BindValues, 2) : WhereOr(column, values)
  \/ \E column \in Columns, value \in BindValues : WhereClause(column, value)
  \/ \E column \in Columns : GroupBy(column)
  \/ \E value \in BindValues : Having(value)
  \/ \E column \in Columns : OrderBy(column)
  \/ Limit("10")
  \/ BuildSql

SpecBuilder == InitBuilder /\ [][NextBuilder]_vars

\* ------------------------------------------------------------------ claims

\* The positions of a call inside download_file.
DownloadPcs == {"send", "write_open", "write_data", "rename", "cleanup"}

\* C1: remote_version() never returns an error, whatever the metadata
\* request ends in, so that is_stale() never fails because of the version
\* check: every remote_version() and is_stale() call returns Ok.
C1_VersionCheckNeverFails ==
  \A p \in Procs :
    ret[p].fn \in {"remote_version", "is_stale"} => ret[p].res = "Ok"

\* C2: is_stale() returns true whenever version.txt records no token; when a
\* local token exists it returns true iff the remote token was obtained and
\* differs from the local one, and false when it could not be obtained.
C2_IsStaleValue ==
  \A p \in Procs :
    ret[p].fn = "is_stale" =>
      /\ ret[p].res = "Ok"
      /\ ret[p].stale =
           IF ~local_version.some THEN TRUE
           ELSE remote_ver[p].some /\ remote_ver[p].v # local_version.v

\* C3: within one process every step of a download leaves at the final path
\* what was there before or the complete file just downloaded, never a
\* partially written file, and the step that ends a failed download leaves
\* no .tmp sibling behind.
C3_AtomicDownload ==
  [][\A p \in Procs :
       (pc[p] \in DownloadPcs /\ ev'.by = p) =>
         /\ \/ store'[dest[p]] = store[dest[p]]
            \/ store'[dest[p]] = buf[p] /\ buf[p].kind = "data"
         /\ store'[dest[p]].kind # "partial"
         /\ pc[p] = "cleanup" => store'[tmp_dest(dest[p])].kind = "absent"]_vars

\* C3 witness: a download over a complete cached file failed on the disk
\* (temp-file write or rename); the old file is still there, no .tmp is.
C3_Witness ==
  /\ ret[1].fn = "ensure_parquet"
  /\ ret[1].res = "Io"
  /\ store[parquet_files["cards"]].kind = "data"
  /\ ~Exists(tmp_dest(parquet_files["cards"]))

\* C4: with two processes downloading the same cache entry into a shared
\* cache directory, a reader of the final path never observes a partially
\* written file.
C4_ReaderNeverSeesPartial == observed.kind # "partial"

\* C5: when the cached JSON file cannot be decoded into a JSON value,
\* load_json removes the file and returns NotFound, never another error.
C5_CorruptJsonRemoved ==
  [][\A p \in Procs :
       (/\ pc[p] = "parse"
        /\ pc'[p] = "idle"
        /\ store[dest[p]].kind \in {"garbage_text", "garbage_bytes", "partial"}) =>
         /\ ret'[p].res = "NotFound"
         /\ store'[dest[p]].kind = "absent"]_vars

\* C6: in offline mode ensure_parquet / ensure_json send no network request
\* and leave the cache directory alone; they return Ok(path) when the file
\* exists, stale or not, and NotFound when it does not.
C6_OfflineEnsure ==
  [][\A p \in Procs :
       (offline[p] /\ ev'.by = p) =>
         /\ ev'.sent = {}
         /\ meta_requests'[p] = meta_requests[p]
         /\ pc'[p] \notin DownloadPcs
         /\ \A n \in DOMAIN parquet_files :
              (pc[p] = "idle" /\ ret'[p].fn = "ensure_parquet" /\ ret'[p].name = n) =>
                /\ store' = store /\ version_txt' = version_txt
                /\ ret'[p].res = IF Exists(parquet_files[n]) THEN "Ok" ELSE "NotFound"
         /\ \A n \in DOMAIN json_files :
              (pc[p] = "idle" /\ ret'[p].fn = "ensure_json" /\ ret'[p].name = n) =>
                /\ store' = store /\ version_txt' = version_txt
                /\ ret'[p].res = IF Exists(json_files[n]) THEN "Ok" ELSE "NotFound"]_vars

\* C6 witness: an offline session was handed the path of a cached file
\* although no version token is recorded (is_stale() is true).
C6_Witness ==
  /\ offline[1]
  /\ ret[1] = Result("ensure_parquet", "cards", "Ok")
  /\ Exists(parquet_files["cards"])
  /\ ~version_txt.exists

C8_VersionRecorded ==
  [][\A p \in Procs :
       (pc[p] = "save" /\ pc'[p] # "save") =>
         version_txt' = VersionFile(cdn)]_vars

\* C8 amended: after a successful download, if remote_version() yields a
\* token and the write of version.txt succeeds, version.txt holds exactly
\* that token; if remote_version() yields no token (None or an error),
\* version.txt is left as it was.
C8_VersionSavedWhenKnown ==
  [][\A p \in Procs :
       (pc[p] = "save" /\ pc'[p] # "save") =>
         /\ remote_ver'[p].some => ev'.save # "none"
         /\ ev'.save = "ok" =>
              remote_ver'[p].some /\ version_txt' = VersionFile(remote_ver'[p].v)
         /\ ~remote_ver'[p].some =>
              ev'.save = "none" /\ version_txt' = version_txt]_vars

\* C8 witness: an ensure_parquet call downloaded its file and recorded the
\* token the metadata endpoint served.
C8_Witness ==
  /\ ret[1] = Result("ensure_parquet", "cards", "Ok")
  /\ ev.by = 1
  /\ ev.save = "ok"
  /\ "meta" \in ev.sent
  /\ version_txt = VersionFile(cdn)
  /\ store[parquet_files["cards"]] = Data(cdn)

\* C9: a download that fails makes the call return that error (no fallback
\* to the cached copy), and no step of it changes the file at the final
\* path or version.txt.
C9_FailedDownload ==
  [][\A p \in Procs :
       (pc[p] \in DownloadPcs /\ ev'.by = p /\ pc'[p] # "save") =>
         /\ store'[dest[p]] = store[dest[p]]
         /\ version_txt' = version_txt
         /\ pc[p] = "cleanup" =>
              /\ err[p] \in {"Http", "Io"}
              /\ pc'[p] = "idle"
              /\ ret'[p] = Result(op[p].fn, op[p].name, err[p])]_vars

\* C9 witness: the download of a stale file failed on the network; the call
\* returned the error while the old copy and the old token are in place.
C9_Witness ==
  /\ ret[1] = Result("ensure_json", "meta", "Http")
  /\ store[json_files["meta"]].kind = "data"
  /\ store[json_files["meta"]].ver # cdn
  /\ version_txt.exists
  /\ Trim(version_txt.text) # cdn

\* C10: a view name becomes registered only by a registration that
\* succeeded, and unregistered only by reset_views (called directly or by a
\* refresh() that found the cache stale) or with the Connection itself; a
\* registration that fails leaves the name unregistered.
C10_ViewTransitions ==
  [][\A p \in Procs :
       /\ \A n \in registered_views'[p] \ registered_views[p] :
            /\ ret'[p].fn \in {"ensure_view", "register_table_from_ndjson"}
            /\ ret'[p].name = n
            /\ ret'[p].res = "Ok"
       /\ registered_views[p] \ registered_views'[p] # {} =>
            /\ registered_views'[p] = {}
            /\ \/ ret'[p].fn = "reset_views"
               \/ ret'[p].fn = "refresh" /\ ret'[p].stale
               \/ ret'[p].fn = "build"
       /\ (ev'.by = p /\ ret'[p].fn = "ensure_view" /\ ret'[p].res # "Ok") =>
            /\ ret'[p].name \notin registered_views'[p]
            /\ registered_views'[p] = registered_views[p]]_vars

\* C10 witness: a registration failed in the engine after the file had been
\* fetched, and the name is not registered.
C10_Witness ==
  /\ ret[1] = Result("ensure_view", "card_legalities", "DuckDb")
  /\ store[parquet_files["card_legalities"]].kind = "data"
  /\ "card_legalities" \notin registered_views[1]
  /\ "cards" \in registered_views[1]

\* C11: ensure_views is idempotent: for a name that is registered (an earlier
\* call registered it and no reset happened since), a further call returns
\* Ok at once, leaves registered_views and the cache directory unchanged and
\* sends no request, even when the cached file has become stale meanwhile.
C11_EnsureViewsIdempotent ==
  [][\A p \in Procs : \A n \in DOMAIN parquet_files :
       (/\ pc[p] = "idle"
        /\ n \in registered_views[p]
        /\ ev'.by = p
        /\ \/ ret'[p].fn = "ensure_view" /\ ret'[p].name = n
           \/ op'[p] = [fn |-> "ensure_view", name |-> n]) =>
         /\ pc'[p] = "idle"
         /\ ret'[p] = Result("ensure_view", n, "Ok")
         /\ registered_views' = registered_views
         /\ ev'.sent = {}
         /\ meta_requests' = meta_requests
         /\ store' = store
         /\ version_txt' = version_txt]_vars

\* C11 witness: a second ensure_views call for a registered view returned
\* without a download although the CDN has published a newer version than
\* the cached file's.
C11_Witness ==
  /\ ev.by = 1
  /\ ev.skip
  /\ ret[1] = Result("ensure_view", "cards", "Ok")
  /\ "cards" \in registered_views[1]
  /\ store[parquet_files["cards"]].kind = "data"
  /\ store[parquet_files["cards"]].ver # cdn
  /\ version_txt.exists

\* C12: refresh() returns the value of is_stale(); when it returns true the
\* cache directory holds no data file and no version token and the registry
\* is empty, and the next ensure_views call of the session starts a
\* download; when it returns false the cache directory and the registry are
\* unchanged.
C12_RefreshClears ==
  [][\A p \in Procs :
       /\ (/\ pc[p] = "idle"
           /\ ev'.by = p
           /\ ret'[p].fn = "refresh"
           /\ ret'[p].res = "Ok") =>
            /\ ret'[p].stale =
                 IF ~local_version.some THEN TRUE
                 ELSE remote_ver'[p].some /\ remote_ver'[p].v # local_version.v
            /\ ret'[p].stale =>
                 /\ \A q \in AllPaths : store'[q] = Absent
                 /\ version_txt' = NoVersionFile
                 /\ registered_views'[p] = {}
            /\ ~ret'[p].stale =>
                 /\ store' = store
                 /\ version_txt' = version_txt
                 /\ registered_views' = registered_views
       /\ (/\ pc[p] = "idle"
           /\ ret[p].fn = "refresh"
           /\ ret[p].res = "Ok"
           /\ ret[p].stale
           /\ ev'.by = p
           /\ ret'[p].fn = "ensure_view" \/ op'[p].fn = "ensure_view") =>
            pc'[p] = "send"]_vars

\* C13: when the CDN serves a token different from the one version.txt
\* records, a refresh() of an online session whose version check did not
\* fail on the network finds the cache stale: it returns true, or the error
\* of a clear() that failed.
C13_RefreshSeesNewVersion ==
  [][\A p \in Procs :
       (/\ pc[p] = "idle"
        /\ ev'.by = p
        /\ ret'[p].fn = "refresh"
        /\ ~offline[p]
        /\ local_version.some
        /\ local_version.v # cdn
        /\ ev'.sent = {} \/ remote_ver'[p].some) =>
         \/ ret'[p].res = "Ok" /\ ret'[p].stale
         \/ ret'[p].res = "Io"]_vars

\* The sheet of the pick_from_sheet call: its number of cards, and whether
\* all of its weights are positive / none is.
SheetSize == Cardinality(DOMAIN pick.sheet.cards)

AllPositive == \A u \in DOMAIN pick.sheet.cards : pick.sheet.cards[u] > 0

NonePositive == \A u \in DOMAIN pick.sheet.cards : pick.sheet.cards[u] <= 0

\* C16: a draw of k from a sheet that disallows duplicates never holds the
\* same identifier twice, never holds more than min(k, n) identifiers and
\* never panics; when every weight is positive the finished draw holds
\* exactly min(k, n) identifiers, so that k = n gives every identifier of the
\* sheet exactly once.
C16_DrawWithoutReplacement ==
  (pick.pc # "idle" /\ ~pick.sheet.allowDuplicates) =>
    /\ pick.pc # "panic"
    /\ \A i, j \in DOMAIN pick.results : i # j => pick.results[i] # pick.results[j]
    /\ \A i \in DOMAIN pick.results : pick.results[i] \in DOMAIN pick.sheet.cards
    /\ Len(pick.results) <= Min(pick.count, SheetSize)
    /\ (pick.pc = "done" /\ AllPositive) =>
         /\ Len(pick.results) = Min(pick.count, SheetSize)
         /\ pick.count = SheetSize =>
              {pick.results[i] : i \in DOMAIN pick.results} = DOMAIN pick.sheet.cards

\* C16 witness: more picks were asked than the sheet has cards, and the draw
\* returned the three cards of the sheet, the heaviest one last.
C16_Witness ==
  /\ pick.pc = "done"
  /\ ~pick.sheet.allowDuplicates
  /\ pick.sheet.cards = [u \in Uuids |-> IF u = "a" THEN 2 ELSE 1]
  /\ pick.count = MaxPicks
  /\ pick.results = <<"c", "b", "a">>

\* C17: a draw of k from a sheet that allows duplicates and whose total
\* weight is positive returns exactly k identifiers, each one of the sheet.
C17_DrawWithReplacement ==
  (/\ pick.pc = "done"
   /\ pick.sheet.allowDuplicates
   /\ Sum([i \in DOMAIN Keys(pick.sheet.cards) |->
             pick.sheet.cards[Keys(pick.sheet.cards)[i]]]) > 0) =>
    /\ Len(pick.results) = pick.count
    /\ \A i \in DOMAIN pick.results : pick.results[i] \in DOMAIN pick.sheet.cards

\* C17 witness: four picks from a sheet of two cards, one of negative
\* weight, returned four identifiers.
C17_Witness ==
  /\ pick.pc = "done"
  /\ pick.sheet.allowDuplicates
  /\ pick.sheet.cards = [u \in {"a", "b"} |-> IF u = "a" THEN -1 ELSE 2]
  /\ pick.count = MaxPicks
  /\ Len(pick.results) = MaxPicks

\* C18: a sheet none of whose weights is positive gives no card, with and
\* without replacement, and the draw does not panic.
C18_DegenerateSheet ==
  (pick.pc # "idle" /\ NonePositive) =>
    /\ pick.pc \in {"call", "without_replacement", "done"}
    /\ pick.results = <<>>

\* C18 witness: a draw with replacement over two cards of weight 0 ended
\* with no card.
C18_Witness ==
  /\ pick.pc = "done"
  /\ pick.sheet.allowDuplicates
  /\ pick.sheet.cards = [u \in {"a", "b"} |-> 0]
  /\ pick.count > 0
  /\ pick.uuids = <<"a", "b">>
  /\ pick.results = <<>>

\* C14: open_pack fails, and never returns a pack, when no template is
\* configured for the upper-cased set code and the booster type, so in
\* particular when available_types(set) is empty; the failure is NotFound
\* whenever the engine answered the template queries.
C14_NoConfigurationFails ==
  (/\ pack.pc = "done"
   /\ \/ ~\E r \in db.content_weights :
             r.setCode = to_uppercase(pack.set_code) /\ r.boosterName = pack.booster_type
      \/ available_types(pack.set_code) = {}) =>
    /\ pack.res # "Ok"
    /\ pack.answer = "Ok" => pack.res = "NotFound"

\* C14 witness: a set that has a booster of another type was asked, in
\* lower case, for a type it does not have, and open_pack failed.
C14_Witness ==
  /\ pack.pc = "done"
  /\ pack.set_code = <<"n", "e">>
  /\ pack.booster_type = "play"
  /\ available_types(pack.set_code) = {"draft"}
  /\ pack.answer = "Ok"
  /\ pack.res = "NotFound"

\* C15: a pack that open_pack returns holds one card record per identifier
\* drawn, in the order of the draws, an identifier drawn twice appearing
\* twice: as many records as identifiers were drawn over all sheets.
C15_OneRecordPerDraw ==
  (pack.pc = "done" /\ pack.res = "Ok") =>
    /\ Len(pack.cards) = Len(pack.all_uuids)
    /\ \A i \in DOMAIN pack.cards : pack.cards[i].uuid = pack.all_uuids[i]

\* C19: execute() turns every value of an integer type into the same
\* number when it fits a signed 64-bit integer and into its decimal string
\* when it does not, never into null or another number.
C19_IntegersKept ==
  (converted # NoValue /\ value_ref.tag \in DOMAIN IntegerVariants) =>
    converted = IF value_ref.n \in I64 THEN JsonNumber(value_ref.n)
                ELSE JsonString(to_string(value_ref.n))

\* C20: the i-th element of the parameter list build() returns is the value
\* supplied for the i-th placeholder of the SQL text it returns, whatever
\* the order of the builder calls.
C20_ParamsFollowPlaceholders ==
  built.made => built.params = BoundValues(built.sql)

\* C21: asking ensure_parquet (directly or for a view that is not
\* registered) for a name that is not in parquet_files, or ensure_json /
\* load_json for a name that is not in json_files, fails with NotFound,
\* sends no request and leaves the cache directory and the registry of views
\* as they are.
C21_UnknownNameNotFound ==
  [][\A p \in Procs :
       LET called == IF pc'[p] = "idle"
                       THEN [fn |-> ret'[p].fn, name |-> ret'[p].name]
                       ELSE op'[p]
       IN (/\ pc[p] = "idle"
           /\ ev'.by = p
           /\ \/ /\ called.fn \in {"ensure_parquet", "ensure_view"}
                 /\ called.name \notin DOMAIN parquet_files
                 /\ called.name \notin registered_views[p]
              \/ /\ called.fn \in {"ensure_json", "load_json"}
                 /\ called.name \notin DOMAIN json_files) =>
            /\ pc'[p] = "idle"
            /\ ret'[p].res = "NotFound"
            /\ ev'.sent = {}
            /\ meta_requests' = meta_requests
            /\ store' = store
            /\ version_txt' = version_txt
            /\ registered_views' = registered_views]_vars

\* C21 witness: an online session that has downloaded cards.parquet and
\* registered its view asked for a view that is in no table and got NotFound.
C21_Witness ==
  /\ ~offline[1]
  /\ ret[1] = Result("ensure_view", "no_such_file", "NotFound")
  /\ ev.by = 1
  /\ ev.sent = {}
  /\ "cards" \in registered_views[1]
  /\ store[parquet_files["cards"]].kind = "data"

\* C22: an open_box that succeeds returns exactly as many packs as were
\* asked, each pushed from one open_pack call of its own that succeeded; the
\* first open_pack that fails ends open_box with that error and no pack.
C22_OpenBox ==
  [][/\ (box'.pc = "done" /\ box.pc # "done") =>
          \/ /\ box'.res = "Ok"
             /\ Len(box.box_contents) = box.packs
             /\ box'.box_contents = box.box_contents
             /\ pack.pc = "idle"
          \/ /\ pack.pc = "done"
             /\ pack.res # "Ok"
             /\ box'.res = pack.res
     /\ (box.pc = "loop" /\ pack.pc = "done" /\ pack' # pack) =>
          /\ pack' = NoPack
          /\ IF pack.res = "Ok"
               THEN /\ box'.pc = "loop"
                    /\ box'.box_contents = Append(box.box_contents, pack.cards)
             ELSE box'.pc = "done" /\ box'.res = pack.res
     /\ (box.pc = "loop" /\ box'.pc = "loop") =>
          /\ box'.packs = box.packs
          /\ Len(box'.box_contents) <= box.packs
          /\ pack.pc # "done" => box'.box_contents = box.box_contents]_vars

\* C22 witness: a box of two packs was returned, the two packs drawn apart:
\* they hold different cards.
C22_Witness ==
  /\ box.pc = "done"
  /\ box.res = "Ok"
  /\ box.packs = MaxPacks
  /\ Len(box.box_contents) = MaxPacks
  /\ box.box_contents[1] # box.box_contents[2]
  /\ box.box_contents[1] # <<>>

\* The weights of the templates open_pack chose from.
TemplateWeights == [i \in DOMAIN pack.templates |-> pack.templates[i].weight]

\* C23: when no template weight is negative and their sum is positive,
\* every roll of [0, total) selects exactly one template, by the walk and
\* never by the fallback after it, and exactly weight_i of the rolls select
\* template i, so a template of weight zero is never selected; the template
\* open_pack went on with is the one its roll selects.
C23_PickPackProportional ==
  (/\ pack.pc # "idle"
   /\ pack.templates # <<>>
   /\ \A i \in DOMAIN TemplateWeights : TemplateWeights[i] >= 0
   /\ Sum(TemplateWeights) > 0) =>
    LET choices == pick_pack(pack.templates)
    IN /\ {c.roll : c \in choices} = 0 .. (Sum(TemplateWeights) - 1)
       /\ \A c, d \in choices : c.roll = d.roll => c = d
       /\ \A c \in choices : /\ Roulette(TemplateWeights, c.roll) > 0
                              /\ c.index = Roulette(TemplateWeights, c.roll)
       /\ \A i \in DOMAIN TemplateWeights :
            Cardinality({c \in choices : c.index = i}) = TemplateWeights[i]
       /\ (pack.answer = "Ok" /\ pack.template # 0) =>
            /\ [roll |-> pack.roll, index |-> pack.template] \in choices
            /\ TemplateWeights[pack.template] > 0

\* C23 witness: of templates weighing 2 and 1, the last roll, 2, selected
\* the second, and the pack was opened from it.
C23_Witness ==
  /\ pack.pc = "done"
  /\ pack.res = "Ok"
  /\ TemplateWeights = <<2, 1>>
  /\ pack.roll = 2
  /\ pack.template = 2

\* The columns the file of the build_csv_replace call has as text.
TextColumns == {col \in DOMAIN view.schema : view.schema[col] = "VARCHAR"}

\* C24: the columns build_csv_replace rewrites into arrays are exactly the
\* static allow-list of the view together with the text columns that end in
\* "s" and are not on the block-list, cut down to the columns the file has
\* as text; a column of the allow-list that the file has as text is always
\* rewritten, and each column is rewritten once.
C24_ArrayColumns ==
  (view.fn = "build_csv_replace" /\ view.res = "Ok") =>
    LET rewritten == {view.clause.final_cols[i] : i \in DOMAIN view.clause.final_cols}
        allow == IF view.view_name \in DOMAIN static_list_columns
                   THEN static_list_columns[view.view_name] ELSE {}
        heuristic == {col \in TextColumns :
                        col[Len(col)] = "s" /\ col \notin ignored_columns}
    IN /\ rewritten = (allow \cup heuristic) \cap TextColumns
       /\ allow \cap TextColumns \subseteq rewritten
       /\ Len(view.clause.final_cols) = Cardinality(rewritten)

\* C24 witness: the tokens view over a file that has the allow-listed
\* colorIdentity and the plural variations as text, the allow-listed types
\* as a number and the block-listed rulings and status as text: exactly
\* colorIdentity and variations are rewritten.
C24_Witness ==
  /\ view.fn = "build_csv_replace"
  /\ view.res = "Ok"
  /\ view.view_name = "tokens"
  /\ DOMAIN view.schema = ColumnNames
  /\ \A col \in ColumnNames : view.schema[col] = "BIGINT" <=> col = <<"type", "s">>
  /\ view.clause.final_cols = <<<<"colorIdentit", "y">>, <<"variation", "s">>>>

\* The (source row, format column) pairs of the file whose value is not
\* NULL, and the view row the claim gives each of them.
NonNullPairs ==
  {q \in (DOMAIN view.source) \X {view.all_cols[i] : i \in DOMAIN view.all_cols} :
     q[2] # "uuid" /\ view.source[q[1]][q[2]].some}

TripleOf(q) ==
  [uuid |-> view.source[q[1]]["uuid"], format |-> q[2], status |-> view.source[q[1]][q[2]]]

\* C25: the legality view that was created holds, for every source row and
\* every column other than uuid whose value in the row is not NULL, one row
\* (uuid, format, status), counted with repetition, and no other row.
C25_LegalitiesUnpivot ==
  (view.fn = "register_legalities_view" /\ view.res = "Ok") =>
    /\ \A k \in DOMAIN view.rows : \E q \in NonNullPairs : view.rows[k] = TripleOf(q)
    /\ \A q \in NonNullPairs :
         Cardinality({k \in DOMAIN view.rows : view.rows[k] = TripleOf(q)})
           = Cardinality({r \in NonNullPairs : TripleOf(r) = TripleOf(q)})

\* The sheet the loop of open_pack is at, and whether the sheet-cards table
\* has a row for it.
SheetAtHand == Head(pack.todo)

HasCardRows(sheet_name) ==
  \E r \in db.sheet_cards : /\ r.setCode = pack.upper
                            /\ r.boosterName = pack.booster_type
                            /\ r.sheetName = sheet_name

\* C26: a sheet whose pick-count is zero or negative is passed over without
\* a query, a draw or a failure; a sheet without card rows is passed over
\* without a draw, and open_pack fails at it only with the error of the
\* engine that was asked for its rows; the sheets after it are still
\* visited, and the pack that is returned holds their draws.
C26_EmptySheetSkipped ==
  [][/\ (/\ pack.pc = "sheets"
         /\ pack.todo # <<>>
         /\ pack' # pack
         /\ SheetAtHand.picks <= 0 \/ ~HasCardRows(SheetAtHand.name)) =>
          \/ /\ pack'.pc = "sheets"
             /\ pack'.todo = Tail(pack.todo)
             /\ pack'.all_uuids = pack.all_uuids
             /\ pick' = NoPick
          \/ /\ SheetAtHand.picks > 0
             /\ pack'.pc = "done"
             /\ pack'.res \in EngineAnswers \ {"Ok"}
             /\ pack'.res = pack'.answer
     /\ (/\ pack.pc = "sheets"
         /\ pack'.pc = "done"
         /\ pack'.res = "Ok"
         /\ DOMAIN pack.templates[pack.template].sheets = {"common", "foil"}
         /\ pack.templates[pack.template].sheets["common"] <= 0 \/ ~HasCardRows("common")
         /\ pack.templates[pack.template].sheets["foil"] = 1
         /\ \E r \in db.sheet_cards : /\ r.setCode = pack.upper
                                       /\ r.boosterName = pack.booster_type
                                       /\ r.sheetName = "foil"
                                       /\ r.cardUuid = "c" /\ r.cardWeight > 0) =>
          pack.all_uuids = <<"c">>]_vars

\* C26 witness: the template asks -1 cards of the sheet common and one of
\* the sheet foil; the pack returned holds the one card of the sheet foil.
C26_Witness ==
  /\ pack.pc = "done"
  /\ pack.res = "Ok"
  /\ pack.templates[pack.template].sheets = [n \in {"common", "foil"} |->
                                               IF n = "foil" THEN 1 ELSE -1]
  /\ HasCardRows("common")
  /\ pack.all_uuids = <<"c">>
  /\ pack.cards = <<[uuid |-> "c"]>>

\* C27: whenever version.txt records a version (local_version() gives a
\* token that is not empty), every data file in the cache directory was
\* downloaded while the CDN served that version.
C27_VersionConsistency ==
  (local_version.some /\ local_version.v # <<>>) =>
    \A d \in DataPaths :
      store[d].kind = "data" => Trim(store[d].ver) = local_version.v

\* C28: a refresh() of an offline session deletes no cached data file and
\* leaves the registry of views as it is, whatever the cache directory
\* holds.
C28_OfflineRefreshKeepsCache ==
  [][\A p \in Procs :
       (/\ pc[p] = "idle"
        /\ offline[p]
        /\ ev'.by = p
        /\ ret'[p].fn = "refresh") =>
         /\ \A d \in DataPaths : store[d].kind = "data" => store'[d] = store[d]
         /\ registered_views'[p] = registered_views[p]]_vars

\* C29: when the last step of an online session completed an
\* ensure_parquet or ensure_json call with Ok and the file is still there,
\* the same call made again at once returns without starting a download.
C29_SecondEnsureNoDownload ==
  [][\A p \in Procs :
       LET called == IF pc'[p] = "idle" THEN [fn |-> ret'[p].fn, name |-> ret'[p].name]
                     ELSE op'[p]
           path == (parquet_files @@ json_files)[ret[p].name]
       IN (/\ pc[p] = "idle"
           /\ ~offline[p]
           /\ ev.by = p
           /\ ret[p].fn \in {"ensure_parquet", "ensure_json"}
           /\ ret[p].res = "Ok"
           /\ Exists(path)
           /\ ev'.by = p
           /\ called = [fn |-> ret[p].fn, name |-> ret[p].name]) =>
            /\ pc'[p] = "idle"
            /\ "file" \notin ev'.sent]_vars

\* C30: no draw, with or without replacement, ever returns a card whose
\* weight is zero or negative, whatever the weights of the other cards.
C30_NonPositiveNeverDrawn ==
  pick.pc \notin {"idle", "call"} =>
    \A i \in DOMAIN pick.results : pick.sheet.cards[pick.results[i]] > 0

\* C30 witness: from a sheet of a card of weight -1, one of weight 0 and one
\* of weight 2, drawn without replacement for more cards than it has, only
\* the third came out.
C30_Witness ==
  /\ pick.pc = "done"
  /\ ~pick.sheet.allowDuplicates
  /\ pick.sheet.cards = [u \in Uuids |-> IF u = "a" THEN -1 ELSE IF u = "b" THEN 0 ELSE 2]
  /\ pick.count = MaxPicks
  /\ pick.results = <<"c">>
====
